---- MODULE Spec2Model ----
(***************************************************************************)
(* Model of the batch feature extraction run (accent_feature_extractor.py) *)
(* and of the heuristic quality / noise classifiers (scripts/*.py).        *)
(***************************************************************************)
EXTENDS Integers, Sequences, FiniteSets, TLC

VARIABLES
    rootExists,    \* args.audio_root.exists()
    fsFiles,       \* files present under the audio root (file ids)
    archive,       \* output path -> state of the .npz archive on disk, and
                   \* whether this run wrote it
    manifestFile,  \* content of the manifest file on disk (sequence of records)
    pc,            \* position of main: "start", "loop", "done", "aborted"
    exit_status,   \* status the process ends with (-1 while running)
    overwrite,     \* args.overwrite
    audio_files,   \* list returned by iter_audio_files
    idx,           \* 1-based position of the for loop in audio_files
    manifest,      \* the in-memory manifest list
    skipped,       \* counter
    failures,      \* counter
    visited,       \* history: outcome of every completed loop iteration
    preexist,      \* history: output paths that existed when the run started
    run,           \* number of the current invocation of main
    prev_failed,   \* history: files the previous invocation counted as failed
    qa,            \* last result of a quality analyzer (classifier part)
    rep,           \* a quality-report invocation: main of an analyzer script
    ex             \* a call of extract_features: its inputs, then its outcome

batchVars == <<rootExists, fsFiles, archive, manifestFile, pc, exit_status,
               overwrite, audio_files, idx, manifest, skipped, failures,
               visited, preexist, run, prev_failed>>
vars == <<rootExists, fsFiles, archive, manifestFile, pc, exit_status,
          overwrite, audio_files, idx, manifest, skipped, failures,
          visited, preexist, run, prev_failed, qa, rep, ex>>

-----------------------------------------------------------------------------
(* Bounds *)

MaxFiles == 3
MaxRuns == 2
MaxReportFiles == 3
MaxBlocks == 3
MaxSamples == 5
MaxTrimBlocks == 4

-----------------------------------------------------------------------------
(* Paths.  A path is the sequence of its components below the audio root,  *)
(* a component is the sequence of its character codes.                     *)

ExtMp3 == <<46, 109, 112, 51>>     \* ".mp3"
ExtWav == <<46, 119, 97, 118>>     \* ".wav"
ExtNpz == <<46, 110, 112, 122>>    \* ".npz"

\* The corpus the model draws its files from: ids are arbitrary handles.
FileIds == 1..4

PathOf(f) ==
    CASE f = 1 -> << <<98>>, <<120>> \o ExtMp3 >>      \* b/x.mp3
      [] f = 2 -> << <<97>>, <<120>> \o ExtWav >>      \* a/x.wav
      [] f = 3 -> << <<97>>, <<121>> \o ExtMp3 >>      \* a/y.mp3
      [] f = 4 -> << <<97>>, <<120>> \o ExtMp3 >>      \* a/x.mp3

\* Lexicographic order on sequences of integers (str.__lt__ on a component).
RECURSIVE SeqLess(_, _)
SeqLess(s, t) ==
    IF t = <<>> THEN FALSE
    ELSE IF s = <<>> THEN TRUE
    ELSE IF Head(s) < Head(t) THEN TRUE
    ELSE IF Head(s) > Head(t) THEN FALSE
    ELSE SeqLess(Tail(s), Tail(t))

\* PurePath.__lt__: lexicographic comparison of the component lists.
RECURSIVE PartsLess(_, _)
PartsLess(p, q) ==
    IF q = <<>> THEN FALSE
    ELSE IF p = <<>> THEN TRUE
    ELSE IF SeqLess(Head(p), Head(q)) THEN TRUE
    ELSE IF SeqLess(Head(q), Head(p)) THEN FALSE
    ELSE PartsLess(Tail(p), Tail(q))

PathLess(f, g) == PartsLess(PathOf(f), PathOf(g))

Name(f) == PathOf(f)[Len(PathOf(f))]
Parent(f) == SubSeq(PathOf(f), 1, Len(PathOf(f)) - 1)

\* PurePath.stem: the final component without its last suffix.
LastDot(name) ==
    LET dots == {i \in 1..Len(name) : name[i] = Head(ExtNpz)}
    IN  IF dots = {} THEN 0 ELSE CHOOSE i \in dots : \A j \in dots : j <= i
Stem(f) ==
    LET n == Name(f)
        d == LastDot(n)
    IN  IF d > 1 THEN SubSeq(n, 1, d - 1) ELSE n

\* output_path = args.output_root / rel.parent / f"{audio_path.stem}.npz"
OutputPath(f) == Append(Parent(f), Stem(f) \o ExtNpz)

OutPaths == {OutputPath(f) : f \in FileIds}

\* rglob(f"*{ext}"): the name ends with ext.
Matches(f, ext) ==
    LET n == Name(f)
    IN  /\ Len(n) >= Len(ext)
        /\ SubSeq(n, Len(n) - Len(ext) + 1, Len(n)) = ext

\* Argument values of --exts the model draws from.
ExtLists == { <<ExtMp3, ExtWav>>, <<ExtWav, ExtMp3>>, <<ExtMp3>>,
              <<ExtWav, ExtWav>> }

-----------------------------------------------------------------------------
(* iter_audio_files *)

\* The orders in which the file system may enumerate a set of files.
Orderings(S) ==
    {s \in [1..Cardinality(S) -> S] : \A i, j \in 1..Cardinality(S) : i # j => s[i] # s[j]}

\* root.rglob(f"*{ext}") under the enumeration order ord
Rglob(ord, ext) == SelectSeq(ord, LAMBDA f : Matches(f, ext))

\* for ext in exts: files.extend(root.rglob(...))
RECURSIVE Collect(_, _)
Collect(ord, exts) ==
    IF exts = <<>> THEN <<>>
    ELSE Rglob(ord, Head(exts)) \o Collect(ord, Tail(exts))

\* insertion of one path into a sorted list, after its equals (stable)
RECURSIVE Insert(_, _)
Insert(f, s) ==
    IF s = <<>> THEN <<f>>
    ELSE IF PathLess(f, Head(s)) THEN <<f>> \o s
    ELSE <<Head(s)>> \o Insert(f, Tail(s))

RECURSIVE SortedPaths(_)
SortedPaths(s) ==
    IF s = <<>> THEN <<>>
    ELSE Insert(s[Len(s)], SortedPaths(SubSeq(s, 1, Len(s) - 1)))

\* variant without the final sorted()
iter_audio_files_unsorted(ord, exts) == Collect(ord, exts)

iter_audio_files(ord, exts) == SortedPaths(Collect(ord, exts))

-----------------------------------------------------------------------------
(* The batch run: main *)

Absent == [st |-> "absent", fresh |-> FALSE]

\* output_path.exists(): any file at the path, whatever it holds
Exists(p) == archive[p].st # "absent"

\* the FeatureSummary extract_features returns: features_path=""
ExtractedSummary(f) == [audio |-> f, features_path |-> <<>>]

Summary_path_unset(f) == ExtractedSummary(f)

\* the record main appends for a processed clip, line 273:
\* summary.features_path = str(output_path)
Summary(f) == [ExtractedSummary(f) EXCEPT !.features_path = OutputPath(f)]

\* what an earlier run may have left in the manifest file
PriorManifests == { <<>>, <<[audio |-> 1, features_path |-> OutputPath(1)]>> }

InitBatch ==
    /\ rootExists \in BOOLEAN
    /\ fsFiles \in {S \in SUBSET FileIds : Cardinality(S) <= MaxFiles}
    /\ rootExists = FALSE => fsFiles = {}
    /\ archive = [p \in OutPaths |-> Absent]
    /\ manifestFile \in PriorManifests
    /\ pc = "start"
    /\ exit_status = -1
    /\ overwrite = FALSE
    /\ audio_files = <<>>
    /\ idx = 1
    /\ manifest = <<>>
    /\ skipped = 0
    /\ failures = 0
    /\ visited = <<>>
    /\ preexist = {}
    /\ run = 1
    /\ prev_failed = {}

\* lines 238-240: the audio root does not exist
MainMissingRoot ==
    /\ pc = "start"
    /\ ~rootExists
    /\ \E ow \in BOOLEAN : overwrite' = ow
    /\ pc' = "done"
    /\ exit_status' = 1
    /\ preexist' = {p \in OutPaths : Exists(p)}
    /\ UNCHANGED <<rootExists, fsFiles, archive, manifestFile, audio_files,
                   idx, manifest, skipped, failures, visited, run,
                   prev_failed, qa, rep, ex>>

\* lines 242-245: no audio file found
MainNoFiles ==
    /\ pc = "start"
    /\ rootExists
    /\ \E ow \in BOOLEAN, exts \in ExtLists, ord \in Orderings(fsFiles) :
          /\ iter_audio_files(ord, exts) = <<>>
          /\ overwrite' = ow
          /\ audio_files' = <<>>
    /\ pc' = "done"
    /\ exit_status' = 0
    /\ preexist' = {p \in OutPaths : Exists(p)}
    /\ UNCHANGED <<rootExists, fsFiles, archive, manifestFile,
                   idx, manifest, skipped, failures, visited, run,
                   prev_failed, qa, rep, ex>>

\* lines 242-250: files found, counters and manifest list initialised
MainFound ==
    /\ pc = "start"
    /\ rootExists
    /\ \E ow \in BOOLEAN, exts \in ExtLists, ord \in Orderings(fsFiles) :
          /\ iter_audio_files(ord, exts) # <<>>
          /\ overwrite' = ow
          /\ audio_files' = iter_audio_files(ord, exts)
    /\ pc' = "loop"
    /\ idx' = 1
    /\ manifest' = <<>>
    /\ skipped' = 0
    /\ failures' = 0
    /\ visited' = <<>>
    /\ preexist' = {p \in OutPaths : Exists(p)}
    /\ UNCHANGED <<rootExists, fsFiles, archive, manifestFile, exit_status,
                   run,
                   prev_failed, qa, rep, ex>>

InLoop == pc = "loop" /\ idx <= Len(audio_files)
Cur == audio_files[idx]

\* line 255: output_path.parent.mkdir raises; nothing catches it, the
\* exception leaves main and the interpreter exits with status 1
LoopMkdirRaises ==
    /\ InLoop
    /\ pc' = "aborted"
    /\ exit_status' = 1
    /\ UNCHANGED <<rootExists, fsFiles, archive, manifestFile, overwrite,
                   audio_files, idx, manifest, skipped, failures, visited,
                   preexist, run,
                   prev_failed, qa, rep, ex>>

\* variant of the skip branch that forgets the counter
LoopSkip_NoCount ==
    /\ InLoop
    /\ Exists(OutputPath(Cur)) /\ ~overwrite
    /\ visited' = Append(visited, [file |-> Cur, outcome |-> "skipped"])
    /\ idx' = idx + 1
    /\ UNCHANGED <<rootExists, fsFiles, archive, manifestFile, pc, exit_status,
                   overwrite, audio_files, manifest, skipped, failures,
                   preexist, run,
                   prev_failed, qa, rep, ex>>

\* variant of the skip branch that ignores --overwrite
LoopSkip_IgnoreOverwrite ==
    /\ InLoop
    /\ Exists(OutputPath(Cur))
    /\ skipped' = skipped + 1
    /\ visited' = Append(visited, [file |-> Cur, outcome |-> "skipped"])
    /\ idx' = idx + 1
    /\ UNCHANGED <<rootExists, fsFiles, archive, manifestFile, pc, exit_status,
                   overwrite, audio_files, manifest, failures, preexist, run,
                   prev_failed, qa, rep, ex>>

\* lines 257-260: the archive exists and overwrite was not requested
LoopSkip ==
    /\ InLoop
    /\ Exists(OutputPath(Cur)) /\ ~overwrite
    /\ skipped' = skipped + 1
    /\ visited' = Append(visited, [file |-> Cur, outcome |-> "skipped"])
    /\ idx' = idx + 1
    /\ UNCHANGED <<rootExists, fsFiles, archive, manifestFile, pc, exit_status,
                   overwrite, audio_files, manifest, failures, preexist, run,
                   prev_failed, qa, rep, ex>>

\* lines 262-271, 281-284: extract_features raises
LoopExtractRaises ==
    /\ InLoop
    /\ ~(Exists(OutputPath(Cur)) /\ ~overwrite)
    /\ failures' = failures + 1
    /\ visited' = Append(visited, [file |-> Cur, outcome |-> "extract_failed"])
    /\ idx' = idx + 1
    /\ UNCHANGED <<rootExists, fsFiles, archive, manifestFile, pc, exit_status,
                   overwrite, audio_files, manifest, skipped, preexist, run,
                   prev_failed, qa, rep, ex>>

\* lines 272, 281-284: np.savez_compressed raises.  It writes the zip file
\* in place: either it fails before creating the file (the path is left as
\* it was) or part-way (a truncated archive is left at the path).
LoopWriteRaises ==
    /\ InLoop
    /\ ~(Exists(OutputPath(Cur)) /\ ~overwrite)
    /\ \E partway \in BOOLEAN :
          archive' = IF partway
                     THEN [archive EXCEPT ![OutputPath(Cur)] =
                              [st |-> "partial", fresh |-> TRUE]]
                     ELSE archive
    /\ failures' = failures + 1
    /\ visited' = Append(visited, [file |-> Cur, outcome |-> "write_failed"])
    /\ idx' = idx + 1
    /\ UNCHANGED <<rootExists, fsFiles, manifestFile, pc, exit_status,
                   overwrite, audio_files, manifest, skipped, preexist, run,
                   prev_failed, qa, rep, ex>>

\* lines 262-280: extraction and write succeed
LoopProcessed ==
    /\ InLoop
    /\ ~(Exists(OutputPath(Cur)) /\ ~overwrite)
    /\ archive' = [archive EXCEPT ![OutputPath(Cur)] =
                      [st |-> "complete", fresh |-> TRUE]]
    /\ manifest' = Append(manifest, Summary(Cur))
    /\ visited' = Append(visited, [file |-> Cur, outcome |-> "processed"])
    /\ idx' = idx + 1
    /\ UNCHANGED <<rootExists, fsFiles, manifestFile, pc, exit_status,
                   overwrite, audio_files, skipped, failures, preexist, run,
                   prev_failed, qa, rep, ex>>

\* lines 286-298: write the manifest if it is not empty, report, return
MainFinish ==
    /\ pc = "loop" /\ idx > Len(audio_files)
    /\ manifestFile' = IF manifest # <<>> THEN manifest ELSE manifestFile
    /\ exit_status' = IF failures = 0 THEN 0 ELSE 2
    /\ pc' = "done"
    /\ UNCHANGED <<rootExists, fsFiles, archive, overwrite, audio_files, idx,
                   manifest, skipped, failures, visited, preexist, run,
                   prev_failed, qa, rep, ex>>

\* the program is invoked again on the same disk
NextRun ==
    /\ pc \in {"done", "aborted"}
    /\ run < MaxRuns
    /\ run' = run + 1
    /\ prev_failed' = {visited[i].file : i \in
                           {k \in 1..Len(visited) :
                               visited[k].outcome \in
                                   {"extract_failed", "write_failed"}}}
    /\ pc' = "start"
    /\ exit_status' = -1
    /\ overwrite' = FALSE
    /\ audio_files' = <<>>
    /\ idx' = 1
    /\ manifest' = <<>>
    /\ skipped' = 0
    /\ failures' = 0
    /\ visited' = <<>>
    /\ preexist' = {}
    /\ archive' = [p \in OutPaths |-> [archive[p] EXCEPT !.fresh = FALSE]]
    /\ UNCHANGED <<rootExists, fsFiles, manifestFile, qa, rep, ex>>

QaIdle == [variant |-> "none"]
RepIdle == [pc |-> "idle"]
ExIdle == [phase |-> "idle"]

Init == InitBatch /\ qa = QaIdle /\ rep = RepIdle /\ ex = ExIdle

Next ==
    \/ MainMissingRoot
    \/ MainNoFiles
    \/ MainFound
    \/ LoopMkdirRaises
    \/ LoopSkip
    \/ LoopExtractRaises
    \/ LoopWriteRaises
    \/ LoopProcessed
    \/ MainFinish
    \/ NextRun

Spec == Init /\ [][Next]_vars

-----------------------------------------------------------------------------
(* Properties of the batch run *)

\* number of completed iterations of this run with the given outcomes
Count(outcomes) ==
    Cardinality({i \in 1..Len(visited) : visited[i].outcome \in outcomes})

Failed == {"extract_failed", "write_failed"}

\* main ran its loop to the end and returned
Completed == pc = "done" /\ rootExists /\ audio_files # <<>>

\* main returned from a run that found its audio root
Returned == pc = "done" /\ rootExists

N == Len(audio_files)

\* the discovered list names N different files
Distinct == \A i, j \in 1..N : i # j => audio_files[i] # audio_files[j]

\* C1: after every loop iteration each visited file is counted in exactly
\* one of processed (a manifest record), skipped or failed, and when the run
\* completes processed + skipped + failed is the number of discovered files.
C1_EveryFileCountedOnce ==
    /\ pc \in {"loop", "aborted"} \/ Completed =>
          /\ Len(visited) = idx - 1
          /\ \A i \in 1..Len(visited) : visited[i].file = audio_files[i]
          /\ Len(manifest) = Count({"processed"})
          /\ skipped = Count({"skipped"})
          /\ failures = Count(Failed)
          /\ Len(manifest) + skipped + failures = idx - 1
    /\ Returned => Len(manifest) + skipped + failures = N

C1_Witness ==
    Completed /\ Len(manifest) >= 1 /\ skipped >= 1 /\ failures >= 1

\* C2: without --overwrite and with no failing step, a run over N files of
\* which M had an archive before the run skips exactly M, processes N - M,
\* fails 0, and skips a file iff its own archive pre-existed.
C2_SkipsExactlyPreexisting ==
    Completed /\ Distinct /\ ~overwrite /\ Count(Failed) = 0 =>
        LET M == Cardinality({i \in 1..N : OutputPath(audio_files[i]) \in preexist})
        IN  /\ skipped = M
            /\ Len(manifest) = N - M
            /\ failures = 0
            /\ \A i \in 1..N :
                  visited[i].outcome = "skipped" <=>
                      OutputPath(visited[i].file) \in preexist

\* C3: with no pre-existing output and exactly one file whose extraction
\* raises, that file is the one failure and has no manifest record, every
\* other file is processed, and the manifest file holds N - 1 records.
C3_OneBadFile ==
    Completed /\ Distinct /\ preexist = {} /\ Count({"extract_failed"}) = 1
              /\ Count({"write_failed"}) = 0 =>
        /\ failures = 1
        /\ \A i \in 1..N :
              visited[i].outcome # "extract_failed" => visited[i].outcome = "processed"
        /\ \A i \in 1..N :
              visited[i].outcome = "extract_failed" =>
                  \A k \in 1..Len(manifestFile) :
                      manifestFile[k].audio # visited[i].file
        /\ Len(manifestFile) = N - 1

\* C4: after any completed run the manifest file holds exactly one record
\* per clip processed in this run and no record of an earlier run, also
\* when no clip was processed.
C4_ManifestIsThisRun ==
    Returned =>
        /\ Len(manifestFile) = Count({"processed"})
        /\ manifestFile = manifest

\* C5: every per-file error is caught inside the loop, so no run is ended
\* by an exception of a per-file step.
C5_NoPerFileErrorEscapes == pc # "aborted"

\* C6: the exit status is 1 iff the audio root does not exist (and then
\* nothing is processed and no manifest is written), 2 iff the run completed
\* with a per-file failure, 0 iff it completed without one.
C6_ExitStatus ==
    pc \in {"done", "aborted"} =>
        /\ exit_status = 1 <=> ~rootExists
        /\ exit_status = 1 => manifest = <<>> /\ visited = <<>>
        /\ exit_status = 2 <=> Returned /\ failures > 0
        /\ exit_status = 0 <=> Returned /\ failures = 0

\* C7: an archive that exists at an output path is completely written.
C7_NoPartialArchive ==
    \A p \in OutPaths : archive[p].st # "partial"

\* C8: with --overwrite no file is skipped: every visited file goes through
\* extraction, a processed file's archive is written in this run whatever
\* existed before, and a completed run has visited every discovered file.
C8_OverwriteNeverSkips ==
    overwrite /\ rootExists =>
        /\ skipped = 0
        /\ \A i \in 1..Len(visited) :
              /\ visited[i].outcome # "skipped"
              /\ visited[i].outcome = "processed" =>
                    /\ archive[OutputPath(visited[i].file)].st # "absent"
                    /\ archive[OutputPath(visited[i].file)].fresh
        /\ Completed => Len(visited) = N

C8_Witness ==
    /\ Completed /\ overwrite /\ skipped = 0
    /\ \E i \in 1..Len(visited) :
          /\ OutputPath(visited[i].file) \in preexist
          /\ visited[i].outcome = "processed"

\* ascending (non-strict) in the order of the paths: no element is
\* followed by a smaller one
Ascending(fs) ==
    \A i \in 1..Len(fs) - 1 : ~PartsLess(PathOf(fs[i + 1]), PathOf(fs[i]))

\* C9: files are processed in ascending lexicographic path order, whatever
\* the order of the extension list and of the file system enumeration, and
\* the manifest records are written in the same order.
C9_LexicographicOrder ==
    /\ Ascending(audio_files)
    /\ \A i \in 1..Len(visited) : visited[i].file = audio_files[i]
    /\ Ascending([i \in 1..Len(manifest) |-> manifest[i].audio])
    /\ Completed /\ manifest # <<>> =>
          Ascending([i \in 1..Len(manifestFile) |-> manifestFile[i].audio])

C9_Witness ==
    /\ Completed /\ N = 3 /\ Len(manifest) = 3
    /\ manifestFile = manifest
    /\ manifestFile[1].audio > manifestFile[2].audio

-----------------------------------------------------------------------------
(* Quality / noise classifiers.  Levels are in dB, rates and ratios in     *)
(* hundredths, sizes in bytes, durations in seconds.                       *)

Max(a, b) == IF a >= b THEN a ELSE b
Min(a, b) == IF a <= b THEN a ELSE b

\* what a result looks like when a key is not in the returned dict
Missing == "missing"

\* the dict returned by analyze_audio_file: the measured inputs it reports
\* (info), the keys it has and the three classification fields
Result(variant, info, score, level, rec) ==
    [variant |-> variant, phase |-> "result", info |-> info,
     keys |-> {"file", "quality_score", "noise_level", "recommendation"},
     quality_score |-> score, noise_level |-> level, recommendation |-> rec]

\* the dict returned for a file whose analysis failed: it has the key
\* 'error', and the key 'recommendation' where the code sets one
ErrorResult(variant, info, score, level, rec) ==
    [Result(variant, info, score, level, rec) EXCEPT
        !.keys = {"file", "error", "quality_score", "noise_level"}
                    \cup (IF rec = Missing THEN {} ELSE {"recommendation"})]

\* the dict of _get_audio_info returned as the result when the probe fails:
\* it has the key 'error' and no other key
ProbeErrorResult(variant, info) ==
    [Result(variant, info, Missing, Missing, Missing) EXCEPT
        !.keys = {"error"}]

\* the dict of a successful analysis: it also holds the measurements, of
\* which the dynamic range that was scored and classified
Analysis(result, dynamic_range) ==
    [k \in DOMAIN result \cup {"dynamic_range"} |->
        IF k = "dynamic_range" THEN dynamic_range ELSE result[k]]

\* a file handed to analyze_audio_file, with what the probes will measure
Pending(variant, info) ==
    [variant |-> variant, phase |-> "pending", info |-> info]

IsPending(variant) == qa.variant = variant /\ qa.phase = "pending"

(* ---- scripts/noise_detector.py ---- *)

\* _parse_ffmpeg_output: the dynamic range from the parsed levels
ND_dynamic_range(rms_level, peak_level) ==
    IF peak_level > 0 /\ rms_level > 0 THEN peak_level - rms_level ELSE 0

ND_calculate_quality_score(sample_rate, channels, duration, bitrate, rms_level, dynamic_range) ==
    LET s1 == IF sample_rate >= 44100 THEN 20
              ELSE IF sample_rate >= 22050 THEN 15
              ELSE IF sample_rate >= 16000 THEN 10 ELSE 0
        s2 == IF channels >= 2 THEN 10 ELSE IF channels = 1 THEN 5 ELSE 0
        s3 == IF 120 <= duration /\ duration <= 300 THEN 20
              ELSE IF 60 <= duration /\ duration <= 600 THEN 15 ELSE 5
        s4 == IF bitrate >= 128000 THEN 20
              ELSE IF bitrate >= 64000 THEN 15
              ELSE IF bitrate >= 32000 THEN 10 ELSE 0
        s5 == IF -30 <= rms_level /\ rms_level <= -10 THEN 15
              ELSE IF -40 <= rms_level /\ rms_level <= -5 THEN 10 ELSE 0
        s6 == IF dynamic_range >= 20 THEN 15
              ELSE IF dynamic_range >= 10 THEN 10 ELSE 0
    IN  Min(s1 + s2 + s3 + s4 + s5 + s6, 100)

ND_determine_noise_level_fifth(rms_level, dynamic_range, quality_score) ==
    IF rms_level < -45 THEN "silent"
    ELSE IF rms_level > -10 THEN "very_high"
    ELSE IF rms_level > -15 THEN "high"
    ELSE IF quality_score < 50 THEN "high"
    ELSE IF dynamic_range < 5 THEN "medium"
    ELSE IF quality_score < 70 THEN "medium"
    ELSE "low"

ND_determine_noise_level(rms_level, dynamic_range, quality_score) ==
    IF rms_level > -10 THEN "very_high"
    ELSE IF rms_level > -15 THEN "high"
    ELSE IF quality_score < 50 THEN "high"
    ELSE IF dynamic_range < 5 THEN "medium"
    ELSE IF quality_score < 70 THEN "medium"
    ELSE "low"

ND_get_recommendation(noise_level, quality_score) ==
    IF noise_level = "very_high" THEN "EXCLUDE"
    ELSE IF noise_level = "high" THEN "REVIEW"
    ELSE IF noise_level = "medium" THEN "ACCEPTABLE"
    ELSE "GOOD"

ND_SampleRates == {8000, 16000, 22050, 44100}
ND_Channels == {0, 1, 2}
ND_Durations == {3, 90, 200, 700}
ND_Bitrates == {0, 32000, 64000, 128000}
ND_RmsLevels == {-50, -35, -20, -12, -8, 0, 2}
ND_PeakLevels == {-6, 0, 1, 30}

ND_Inputs ==
    [sample_rate : ND_SampleRates, channels : ND_Channels,
     duration : ND_Durations, bitrate : ND_Bitrates,
     rms_level : ND_RmsLevels, peak_level : ND_PeakLevels]

\* the result dict of a successful NoiseDetector.analyze_audio_file
ND_analysis(in) ==
    LET dr == ND_dynamic_range(in.rms_level, in.peak_level)
        score == ND_calculate_quality_score(in.sample_rate, in.channels,
                     in.duration, in.bitrate, in.rms_level, dr)
        level == ND_determine_noise_level(in.rms_level, dr, score)
    IN  Analysis(Result("noise_detector", in, score, level,
                        ND_get_recommendation(level, score)), dr)

\* NoiseDetector.analyze_audio_file, the analysis succeeds
ND_Analyze ==
    /\ IsPending("noise_detector")
    /\ qa' = ND_analysis(qa.info)
    /\ UNCHANGED <<batchVars, rep, ex>>

\* NoiseDetector.analyze_audio_file: ffprobe fails, no audio stream, timeout
\* or another exception
ND_AnalyzeError ==
    /\ IsPending("noise_detector")
    /\ qa' = ErrorResult("noise_detector", qa.info, 0, "unknown", Missing)
    /\ UNCHANGED <<batchVars, rep, ex>>

(* ---- scripts/robust_audio_analyzer.py ---- *)

RB_calculate_quality_score_unclamped(rms_db, dynamic_range, zcr, centroid, hf_ratio, file_size, multi, bg) ==
    LET s1 == IF -25 <= rms_db /\ rms_db <= -10 THEN 25
              ELSE IF -35 <= rms_db /\ rms_db <= -5 THEN 20
              ELSE IF -45 <= rms_db /\ rms_db <= 0 THEN 15 ELSE 5
        s2 == IF dynamic_range >= 30 THEN 25
              ELSE IF dynamic_range >= 20 THEN 20
              ELSE IF dynamic_range >= 10 THEN 15 ELSE 5
        s3 == IF zcr < 5 THEN 20
              ELSE IF zcr < 10 THEN 15
              ELSE IF zcr < 20 THEN 10 ELSE 5
        s4 == IF 500 <= centroid /\ centroid <= 3000 THEN 20
              ELSE IF 200 <= centroid /\ centroid <= 5000 THEN 15 ELSE 10
        s5 == IF file_size >= 50000 THEN 10
              ELSE IF file_size >= 20000 THEN 8
              ELSE IF file_size >= 10000 THEN 5 ELSE 0
        p1 == IF multi THEN 15 ELSE 0
        p2 == IF bg THEN 10 ELSE 0
        p3 == IF hf_ratio > 40 THEN 10 ELSE 0
    IN  s1 + s2 + s3 + s4 + s5 - p1 - p2 - p3

RB_calculate_quality_score(rms_db, dynamic_range, zcr, centroid, hf_ratio, file_size, multi, bg) ==
    LET s1 == IF -25 <= rms_db /\ rms_db <= -10 THEN 25
              ELSE IF -35 <= rms_db /\ rms_db <= -5 THEN 20
              ELSE IF -45 <= rms_db /\ rms_db <= 0 THEN 15 ELSE 5
        s2 == IF dynamic_range >= 30 THEN 25
              ELSE IF dynamic_range >= 20 THEN 20
              ELSE IF dynamic_range >= 10 THEN 15 ELSE 5
        s3 == IF zcr < 5 THEN 20
              ELSE IF zcr < 10 THEN 15
              ELSE IF zcr < 20 THEN 10 ELSE 5
        s4 == IF 500 <= centroid /\ centroid <= 3000 THEN 20
              ELSE IF 200 <= centroid /\ centroid <= 5000 THEN 15 ELSE 10
        s5 == IF file_size >= 50000 THEN 10
              ELSE IF file_size >= 20000 THEN 8
              ELSE IF file_size >= 10000 THEN 5 ELSE 0
        p1 == IF multi THEN 15 ELSE 0
        p2 == IF bg THEN 10 ELSE 0
        p3 == IF hf_ratio > 40 THEN 10 ELSE 0
    IN  Max(0, Min(100, s1 + s2 + s3 + s4 + s5 - p1 - p2 - p3))

\* number of the predicates that hold
Tally(preds) == Cardinality({i \in DOMAIN preds : preds[i]})

RB_determine_noise_level_score_only(rms_db, dynamic_range, zcr, multi, bg, quality_score) ==
    IF Tally(<<rms_db > -5, dynamic_range < 5, zcr > 30, multi /\ bg,
               quality_score < 30>>) >= 2 THEN "very_high"
    ELSE IF Tally(<<rms_db > -15, dynamic_range < 15, zcr > 20, multi,
                    quality_score < 50>>) >= 2 THEN "high"
    ELSE IF quality_score < 70 THEN "medium"
    ELSE "low"

RB_determine_noise_level(rms_db, dynamic_range, zcr, multi, bg, quality_score) ==
    IF Tally(<<rms_db > -5, dynamic_range < 5, zcr > 30, multi /\ bg,
               quality_score < 30>>) >= 2 THEN "very_high"
    ELSE IF Tally(<<rms_db > -15, dynamic_range < 15, zcr > 20, multi,
                    quality_score < 50>>) >= 2 THEN "high"
    ELSE IF rms_db > -25 \/ dynamic_range < 25 \/ quality_score < 70
         THEN "medium"
    ELSE "low"

RB_get_recommendation_flipped(noise_level, quality_score) ==
    IF noise_level = "very_high" \/ quality_score > 70 THEN "EXCLUDE"
    ELSE IF noise_level = "high" \/ quality_score > 50 THEN "REVIEW"
    ELSE IF noise_level = "medium" \/ quality_score > 30 THEN "ACCEPTABLE"
    ELSE "GOOD"

RB_get_recommendation(noise_level, quality_score) ==
    IF noise_level = "very_high" \/ quality_score < 30 THEN "EXCLUDE"
    ELSE IF noise_level = "high" \/ quality_score < 50 THEN "REVIEW"
    ELSE IF noise_level = "medium" \/ quality_score < 70 THEN "ACCEPTABLE"
    ELSE "GOOD"

RB_RmsDb == {-100, -40, -30, -20, -12, -3}
RB_PeakDb == {-100, -30, -18, -10, -1, 0, 3}
RB_Zcr == {2, 7, 15, 25, 35}
RB_Centroid == {100, 300, 1000, 6000}
RB_HfRatio == {10, 50}
RB_FileSize == {5000, 15000, 30000, 60000}

\* the peak of a signal is at least its RMS
RB_Inputs ==
    {in \in [rms_db : RB_RmsDb, peak_db : RB_PeakDb,
             zero_crossing_rate : RB_Zcr, spectral_centroid : RB_Centroid,
             high_frequency_ratio : RB_HfRatio, file_size : RB_FileSize,
             multiple_speakers_detected : BOOLEAN,
             background_noise_detected : BOOLEAN] : in.peak_db >= in.rms_db}

\* _analyze_audio_characteristics, line 157
RB_dynamic_range(rms_db, peak_db) == peak_db - rms_db

\* the result dict of a successful RobustAudioAnalyzer.analyze_audio_file
RB_analysis(in) ==
    LET dr == RB_dynamic_range(in.rms_db, in.peak_db)
        score == RB_calculate_quality_score(in.rms_db, dr,
                     in.zero_crossing_rate, in.spectral_centroid,
                     in.high_frequency_ratio, in.file_size,
                     in.multiple_speakers_detected,
                     in.background_noise_detected)
        level == RB_determine_noise_level(in.rms_db, dr,
                     in.zero_crossing_rate, in.multiple_speakers_detected,
                     in.background_noise_detected, score)
    IN  Analysis(Result("robust", in, score, level,
                        RB_get_recommendation(level, score)), dr)

\* RobustAudioAnalyzer.analyze_audio_file, the audio is loaded
RB_Analyze ==
    /\ IsPending("robust")
    /\ qa' = RB_analysis(qa.info)
    /\ UNCHANGED <<batchVars, rep, ex>>

\* RobustAudioAnalyzer.analyze_audio_file: the audio cannot be loaded, or an
\* exception is raised during the analysis
RB_AnalyzeError ==
    /\ IsPending("robust")
    /\ qa' = ErrorResult("robust", qa.info, 0, "unknown", "ERROR")
    /\ UNCHANGED <<batchVars, rep, ex>>

(* ---- scripts/simple_noise_detector.py ---- *)

SN_calculate_simple_quality_score(bitrate, file_size, sample_rate, duration, multi, silence_ratio) ==
    LET s1 == IF bitrate >= 128000 THEN 40
              ELSE IF bitrate >= 64000 THEN 35
              ELSE IF bitrate >= 32000 THEN 25 ELSE 10
        s2 == IF file_size >= 50000 THEN 20
              ELSE IF file_size >= 20000 THEN 15
              ELSE IF file_size >= 10000 THEN 10 ELSE 5
        s3 == IF sample_rate >= 44100 THEN 20
              ELSE IF sample_rate >= 22050 THEN 15
              ELSE IF sample_rate >= 16000 THEN 10 ELSE 0
        s4 == IF 2 <= duration /\ duration <= 5 THEN 20
              ELSE IF 1 <= duration /\ duration <= 10 THEN 15 ELSE 10
        p1 == IF multi THEN 15 ELSE 0
        p2 == IF silence_ratio > 70 THEN 10 ELSE 0
    IN  Max(0, Min(100, s1 + s2 + s3 + s4 - p1 - p2))

SN_determine_simple_noise_level(bitrate, file_size, multi, silence_ratio, quality_score) ==
    IF Tally(<<bitrate < 30000, file_size < 15000, multi, silence_ratio > 80,
               quality_score < 30>>) >= 2 THEN "very_high"
    ELSE IF Tally(<<bitrate < 50000, file_size < 25000, multi,
                    quality_score < 50>>) >= 2 THEN "high"
    ELSE IF bitrate < 80000 \/ file_size < 40000 \/ quality_score < 70
            \/ silence_ratio > 60 THEN "medium"
    ELSE "low"

SN_get_simple_recommendation(noise_level, quality_score) ==
    IF noise_level = "very_high" THEN "EXCLUDE"
    ELSE IF noise_level = "high" THEN "REVIEW"
    ELSE IF noise_level = "medium" THEN "ACCEPTABLE"
    ELSE "GOOD"

SN_Bitrates == {16000, 31000, 45000, 64000, 100000, 128000}
SN_FileSizes == {5000, 12000, 18000, 22000, 30000, 45000, 60000}
SN_SampleRates == {8000, 16000, 22050, 44100}
SN_Durations == {0, 1, 3, 8, 20}
SN_SilenceRatios == {0, 65, 75, 85}

SN_Inputs ==
    [bitrate : SN_Bitrates, size : SN_FileSizes, sample_rate : SN_SampleRates,
     duration : SN_Durations, multiple_speakers_detected : BOOLEAN,
     silence_ratio : SN_SilenceRatios]

\* SimpleNoiseDetector.analyze_audio_file, ffprobe succeeds
SN_Analyze ==
    /\ IsPending("simple_noise")
    /\ LET in == qa.info
           score == SN_calculate_simple_quality_score(in.bitrate, in.size,
                        in.sample_rate, in.duration,
                        in.multiple_speakers_detected, in.silence_ratio)
           level == SN_determine_simple_noise_level(in.bitrate, in.size,
                        in.multiple_speakers_detected, in.silence_ratio, score)
       IN  qa' = Result("simple_noise", in, score, level,
                        SN_get_simple_recommendation(level, score))
    /\ UNCHANGED <<batchVars, rep, ex>>

\* SimpleNoiseDetector.analyze_audio_file: _get_audio_info reports an error
\* and its dict, which has only the key 'error', is returned as the result
SN_AnalyzeProbeError ==
    /\ IsPending("simple_noise")
    /\ qa' = ProbeErrorResult("simple_noise", qa.info)
    /\ UNCHANGED <<batchVars, rep, ex>>

\* SimpleNoiseDetector.analyze_audio_file: an exception is raised
SN_AnalyzeException ==
    /\ IsPending("simple_noise")
    /\ qa' = ErrorResult("simple_noise", qa.info, 0, "unknown", "ERROR")
    /\ UNCHANGED <<batchVars, rep, ex>>

(* ---- scripts/simple_robust_analyzer.py ---- *)

SR_calculate_quality_score(rms_db, dynamic_range, zcr, multi, bg, file_size, duration) ==
    LET s1 == IF -25 <= rms_db /\ rms_db <= -10 THEN 25
              ELSE IF -35 <= rms_db /\ rms_db <= -5 THEN 20
              ELSE IF -45 <= rms_db /\ rms_db <= 0 THEN 15 ELSE 5
        s2 == IF dynamic_range >= 30 THEN 25
              ELSE IF dynamic_range >= 20 THEN 20
              ELSE IF dynamic_range >= 10 THEN 15 ELSE 5
        s3 == IF zcr < 5 THEN 20
              ELSE IF zcr < 10 THEN 15
              ELSE IF zcr < 20 THEN 10 ELSE 5
        s4 == IF file_size >= 50000 THEN 10
              ELSE IF file_size >= 20000 THEN 8
              ELSE IF file_size >= 10000 THEN 5 ELSE 0
        s5 == IF 2 <= duration /\ duration <= 5 THEN 15
              ELSE IF 1 <= duration /\ duration <= 10 THEN 10 ELSE 5
        p1 == IF multi THEN 15 ELSE 0
        p2 == IF bg THEN 10 ELSE 0
    IN  Max(0, Min(100, s1 + s2 + s3 + s4 + s5 - p1 - p2))

\* silence_analysis.get('background_noise_ratio', 0): _analyze_silence never
\* sets this key, so the default is what is read
SR_background_noise_ratio == 0

SR_determine_noise_level_three(rms_db, dynamic_range, zcr, multi, bg, quality_score) ==
    IF Tally(<<rms_db > -5, dynamic_range < 5, zcr > 30, multi /\ bg,
               quality_score < 30>>) >= 2 THEN "very_high"
    ELSE IF Tally(<<rms_db > -10, dynamic_range < 10, zcr > 20,
                    bg /\ SR_background_noise_ratio > 20,
                    quality_score < 50>>) >= 3 THEN "high"
    ELSE IF rms_db > -20 \/ dynamic_range < 20 \/ quality_score < 70
         THEN "medium"
    ELSE "low"

SR_determine_noise_level(rms_db, dynamic_range, zcr, multi, bg, quality_score) ==
    IF Tally(<<rms_db > -5, dynamic_range < 5, zcr > 30, multi /\ bg,
               quality_score < 30>>) >= 2 THEN "very_high"
    ELSE IF Tally(<<rms_db > -10, dynamic_range < 10, zcr > 20,
                    bg /\ SR_background_noise_ratio > 20,
                    quality_score < 50>>) >= 2 THEN "high"
    ELSE IF rms_db > -20 \/ dynamic_range < 20 \/ quality_score < 70
         THEN "medium"
    ELSE "low"

SR_get_recommendation(noise_level, quality_score) ==
    IF noise_level = "very_high" \/ quality_score < 30 THEN "EXCLUDE"
    ELSE IF noise_level = "high" \/ quality_score < 50 THEN "REVIEW"
    ELSE IF noise_level = "medium" \/ quality_score < 70 THEN "ACCEPTABLE"
    ELSE "GOOD"

SR_RmsDb == {-100, -40, -22, -12, -9, -3}
SR_PeakDb == {-100, -15, -6, -1, 0, 1}
SR_Zcr == {2, 7, 15, 25, 35}
SR_FileSize == {5000, 60000}
SR_Durations == {0, 3, 20}

\* the samples are the floats ffmpeg decodes, which are not clipped to full
\* scale; the peak of a signal is at least its RMS
SR_Inputs ==
    {in \in [rms_db : SR_RmsDb, peak_db : SR_PeakDb,
             zero_crossing_rate : SR_Zcr, file_size : SR_FileSize,
             duration : SR_Durations,
             multiple_speakers_detected : BOOLEAN,
             background_noise_detected : BOOLEAN] : in.peak_db >= in.rms_db}

\* analyze_audio_file, line 68
SR_dynamic_range(rms_db, peak_db) == peak_db - rms_db

\* SimpleRobustAnalyzer.analyze_audio_file, the audio is loaded
SR_Analyze ==
    /\ IsPending("simple_robust")
    /\ LET in == qa.info
           dr == SR_dynamic_range(in.rms_db, in.peak_db)
           score == SR_calculate_quality_score(in.rms_db, dr,
                        in.zero_crossing_rate, in.multiple_speakers_detected,
                        in.background_noise_detected, in.file_size,
                        in.duration)
           level == SR_determine_noise_level(in.rms_db, dr,
                        in.zero_crossing_rate, in.multiple_speakers_detected,
                        in.background_noise_detected, score)
       IN  qa' = Analysis(Result("simple_robust", in, score, level,
                        SR_get_recommendation(level, score)), dr)
    /\ UNCHANGED <<batchVars, rep, ex>>

\* SimpleRobustAnalyzer.analyze_audio_file: the audio cannot be loaded, or an
\* exception is raised during the analysis
SR_AnalyzeError ==
    /\ IsPending("simple_robust")
    /\ qa' = ErrorResult("simple_robust", qa.info, 0, "unknown", "ERROR")
    /\ UNCHANGED <<batchVars, rep, ex>>

(* ---- scripts/professional_audio_analyzer.py ---- *)

PR_calculate_quality_score(rms_db, dynamic_range, zcr, centroid, bitrate, hf_ratio, multi, bg) ==
    LET s1 == IF -30 <= rms_db /\ rms_db <= -10 THEN 25
              ELSE IF -40 <= rms_db /\ rms_db <= -5 THEN 20
              ELSE IF -50 <= rms_db /\ rms_db <= 0 THEN 15 ELSE 5
        s2 == IF dynamic_range >= 30 THEN 25
              ELSE IF dynamic_range >= 20 THEN 20
              ELSE IF dynamic_range >= 10 THEN 15 ELSE 5
        s3 == IF zcr < 5 THEN 20
              ELSE IF zcr < 10 THEN 15
              ELSE IF zcr < 20 THEN 10 ELSE 5
        s4 == IF 1000 <= centroid /\ centroid <= 3000 THEN 20
              ELSE IF 500 <= centroid /\ centroid <= 4000 THEN 15 ELSE 10
        s5 == IF bitrate >= 128000 THEN 10
              ELSE IF bitrate >= 64000 THEN 8
              ELSE IF bitrate >= 32000 THEN 5 ELSE 0
        p1 == IF multi THEN 15 ELSE 0
        p2 == IF bg THEN 10 ELSE 0
        p3 == IF hf_ratio > 30 THEN 10 ELSE 0
    IN  Max(0, Min(100, s1 + s2 + s3 + s4 + s5 - p1 - p2 - p3))

PR_determine_noise_level(rms_db, dynamic_range, zcr, multi, bg, quality_score) ==
    IF Tally(<<rms_db > -10, dynamic_range < 10, zcr > 30, multi /\ bg,
               quality_score < 30>>) >= 2 THEN "very_high"
    ELSE IF Tally(<<rms_db > -20, dynamic_range < 20, zcr > 20, multi,
                    quality_score < 50>>) >= 2 THEN "high"
    ELSE IF rms_db > -30 \/ dynamic_range < 30 \/ quality_score < 70
         THEN "medium"
    ELSE "low"

PR_get_recommendation(noise_level, quality_score) ==
    IF noise_level = "very_high" \/ quality_score < 30 THEN "EXCLUDE"
    ELSE IF noise_level = "high" \/ quality_score < 50 THEN "REVIEW"
    ELSE IF noise_level = "medium" \/ quality_score < 70 THEN "ACCEPTABLE"
    ELSE "GOOD"

PR_RmsDb == {-100, -45, -32, -25, -15, -8}
PR_PeakDb == {-100, -12, 0, 3}
PR_Zcr == {2, 7, 15, 25, 35}
PR_Centroid == {300, 2000}
PR_Bitrates == {0, 128000}
PR_HfRatio == {10, 40}

PR_Inputs ==
    {in \in [rms_db : PR_RmsDb, peak_db : PR_PeakDb,
             zero_crossing_rate : PR_Zcr, spectral_centroid : PR_Centroid,
             bitrate : PR_Bitrates, high_frequency_ratio : PR_HfRatio,
             multiple_speakers_detected : BOOLEAN,
             background_noise_detected : BOOLEAN] : in.peak_db >= in.rms_db}

\* _analyze_audio_characteristics, line 131
PR_dynamic_range(rms_db, peak_db) == peak_db - rms_db

\* ProfessionalAudioAnalyzer.analyze_audio_file, pydub loads the file
PR_Analyze ==
    /\ IsPending("professional")
    /\ LET in == qa.info
           dr == PR_dynamic_range(in.rms_db, in.peak_db)
           score == PR_calculate_quality_score(in.rms_db, dr,
                        in.zero_crossing_rate, in.spectral_centroid,
                        in.bitrate, in.high_frequency_ratio,
                        in.multiple_speakers_detected,
                        in.background_noise_detected)
           level == PR_determine_noise_level(in.rms_db, dr,
                        in.zero_crossing_rate, in.multiple_speakers_detected,
                        in.background_noise_detected, score)
       IN  qa' = Analysis(Result("professional", in, score, level,
                        PR_get_recommendation(level, score)), dr)
    /\ UNCHANGED <<batchVars, rep, ex>>

\* ProfessionalAudioAnalyzer.analyze_audio_file: an exception is raised
PR_AnalyzeError ==
    /\ IsPending("professional")
    /\ qa' = ErrorResult("professional", qa.info, 0, "unknown", "ERROR")
    /\ UNCHANGED <<batchVars, rep, ex>>

(* ---- scripts/calibrated_audio_analyzer.py ---- *)

\* _parse_ffmpeg_astats, line 167
CA_dynamic_range(rms_level, peak_level) == peak_level - rms_level

CA_calculate_quality_score(bitrate, sample_rate, duration, rms_level, dynamic_range, multi, bg) ==
    LET s1 == IF bitrate >= 128000 THEN 25
              ELSE IF bitrate >= 64000 THEN 20
              ELSE IF bitrate >= 32000 THEN 15 ELSE 10
        s2 == IF sample_rate >= 44100 THEN 20
              ELSE IF sample_rate >= 22050 THEN 15
              ELSE IF sample_rate >= 16000 THEN 10 ELSE 0
        s3 == IF 2 <= duration /\ duration <= 10 THEN 20
              ELSE IF 1 <= duration /\ duration <= 30 THEN 15 ELSE 10
        s4 == IF -40 <= rms_level /\ rms_level <= -5 THEN 20
              ELSE IF -50 <= rms_level /\ rms_level <= 0 THEN 15 ELSE 10
        s5 == IF dynamic_range >= 10 THEN 20
              ELSE IF dynamic_range >= 5 THEN 15 ELSE 10
        p1 == IF multi THEN 10 ELSE 0
        p2 == IF bg THEN 5 ELSE 0
    IN  Max(0, Min(100, s1 + s2 + s3 + s4 + s5 - p1 - p2))

CA_determine_noise_level_calibrated(rms_level, dynamic_range, quality_score) ==
    IF rms_level > -5 \/ dynamic_range < 5 \/ quality_score < 30
        THEN "very_high"
    ELSE IF rms_level > -10 \/ dynamic_range < 10 \/ quality_score < 50
        THEN "high"
    ELSE IF rms_level > -15 \/ dynamic_range < 15 \/ quality_score < 70
        THEN "medium"
    ELSE "low"

CA_get_recommendation(noise_level, quality_score) ==
    IF noise_level = "very_high" \/ quality_score < 30 THEN "EXCLUDE"
    ELSE IF noise_level = "high" \/ quality_score < 50 THEN "REVIEW"
    ELSE IF noise_level = "medium" \/ quality_score < 70 THEN "ACCEPTABLE"
    ELSE "GOOD"

CA_Bitrates == {0, 32000, 64000, 128000}
CA_SampleRates == {8000, 16000, 44100}
CA_Durations == {0, 1, 5, 60}
CA_RmsLevels == {-60, -45, -20, -12, -8, -3}
CA_PeakLevels == {-40, -6, 0}

CA_Inputs ==
    {in \in [bitrate : CA_Bitrates, sample_rate : CA_SampleRates,
             duration : CA_Durations, rms_level : CA_RmsLevels,
             peak_level : CA_PeakLevels,
             multiple_speakers_indicator : BOOLEAN,
             background_noise_indicator : BOOLEAN] :
        in.peak_level >= in.rms_level}

\* the result dict of a successful CalibratedAudioAnalyzer.analyze_audio_file
CA_analysis(in) ==
    LET dr == CA_dynamic_range(in.rms_level, in.peak_level)
        score == CA_calculate_quality_score(in.bitrate, in.sample_rate,
                     in.duration, in.rms_level, dr,
                     in.multiple_speakers_indicator,
                     in.background_noise_indicator)
        level == CA_determine_noise_level_calibrated(in.rms_level, dr, score)
    IN  Analysis(Result("calibrated", in, score, level,
               CA_get_recommendation(level, score)), dr)

\* CalibratedAudioAnalyzer.analyze_audio_file, ffprobe succeeds
CA_Analyze ==
    /\ IsPending("calibrated")
    /\ qa' = CA_analysis(qa.info)
    /\ UNCHANGED <<batchVars, rep, ex>>

\* CalibratedAudioAnalyzer.analyze_audio_file: _get_audio_info reports an
\* error (ffprobe fails, no audio stream, timeout) and its dict is returned
CA_AnalyzeProbeError ==
    /\ IsPending("calibrated")
    /\ qa' = ProbeErrorResult("calibrated", qa.info)
    /\ UNCHANGED <<batchVars, rep, ex>>

\* CalibratedAudioAnalyzer.analyze_audio_file: an exception is raised
CA_AnalyzeException ==
    /\ IsPending("calibrated")
    /\ qa' = ErrorResult("calibrated", qa.info, 0, "unknown", "ERROR")
    /\ UNCHANGED <<batchVars, rep, ex>>

(* ---- scripts/simple_audio_analyzer.py ---- *)

\* _parse_ffmpeg_astats, line 155
SA_dynamic_range(rms_level, peak_level) == peak_level - rms_level

SA_calculate_quality_score(bitrate, sample_rate, duration, rms_level, dynamic_range, multi, bg) ==
    LET s1 == IF bitrate >= 128000 THEN 25
              ELSE IF bitrate >= 64000 THEN 20
              ELSE IF bitrate >= 32000 THEN 15 ELSE 5
        s2 == IF sample_rate >= 44100 THEN 20
              ELSE IF sample_rate >= 22050 THEN 15
              ELSE IF sample_rate >= 16000 THEN 10 ELSE 0
        s3 == IF 120 <= duration /\ duration <= 300 THEN 20
              ELSE IF 60 <= duration /\ duration <= 600 THEN 15 ELSE 5
        s4 == IF -30 <= rms_level /\ rms_level <= -10 THEN 15
              ELSE IF -40 <= rms_level /\ rms_level <= -5 THEN 10 ELSE 0
        s5 == IF dynamic_range >= 20 THEN 15
              ELSE IF dynamic_range >= 10 THEN 10 ELSE 0
        p1 == IF multi THEN 20 ELSE 0
        p2 == IF bg THEN 15 ELSE 0
    IN  Max(0, Min(100, s1 + s2 + s3 + s4 + s5 - p1 - p2))

SA_determine_noise_level(rms_level, dynamic_range, multi, bg, quality_score) ==
    IF rms_level > -5 \/ dynamic_range < 5 \/ multi \/ bg
       \/ quality_score < 30 THEN "very_high"
    ELSE IF rms_level > -10 \/ dynamic_range < 10 \/ quality_score < 50
        THEN "high"
    ELSE IF rms_level > -15 \/ dynamic_range < 15 \/ quality_score < 70
        THEN "medium"
    ELSE "low"

SA_get_recommendation(noise_level, quality_score) ==
    IF noise_level = "very_high" \/ quality_score < 30 THEN "EXCLUDE"
    ELSE IF noise_level = "high" \/ quality_score < 50 THEN "REVIEW"
    ELSE IF noise_level = "medium" \/ quality_score < 70 THEN "ACCEPTABLE"
    ELSE "GOOD"

SA_Bitrates == {0, 32000, 64000, 128000}
SA_SampleRates == {8000, 22050, 44100}
SA_Durations == {3, 90, 200}
SA_RmsLevels == {-45, -35, -20, -12, -8, -3}
SA_PeakLevels == {-30, -6, 0}

SA_Inputs ==
    {in \in [bitrate : SA_Bitrates, sample_rate : SA_SampleRates,
             duration : SA_Durations, rms_level : SA_RmsLevels,
             peak_level : SA_PeakLevels,
             multiple_speakers_indicator : BOOLEAN,
             background_noise_indicator : BOOLEAN] :
        in.peak_level >= in.rms_level}

\* the result dict of a successful SimpleAudioAnalyzer.analyze_audio_file
SA_analysis(in) ==
    LET dr == SA_dynamic_range(in.rms_level, in.peak_level)
        score == SA_calculate_quality_score(in.bitrate, in.sample_rate,
                     in.duration, in.rms_level, dr,
                     in.multiple_speakers_indicator,
                     in.background_noise_indicator)
        level == SA_determine_noise_level(in.rms_level, dr,
                     in.multiple_speakers_indicator,
                     in.background_noise_indicator, score)
    IN  Analysis(Result("simple_audio", in, score, level,
               SA_get_recommendation(level, score)), dr)

\* SimpleAudioAnalyzer.analyze_audio_file, ffprobe succeeds
SA_Analyze ==
    /\ IsPending("simple_audio")
    /\ qa' = SA_analysis(qa.info)
    /\ UNCHANGED <<batchVars, rep, ex>>

\* SimpleAudioAnalyzer.analyze_audio_file: _get_audio_info reports an error
\* and its dict is returned
SA_AnalyzeProbeError ==
    /\ IsPending("simple_audio")
    /\ qa' = ProbeErrorResult("simple_audio", qa.info)
    /\ UNCHANGED <<batchVars, rep, ex>>

\* SimpleAudioAnalyzer.analyze_audio_file: an exception is raised
SA_AnalyzeException ==
    /\ IsPending("simple_audio")
    /\ qa' = ErrorResult("simple_audio", qa.info, 0, "unknown", "ERROR")
    /\ UNCHANGED <<batchVars, rep, ex>>

BatchIdle ==
    /\ rootExists = FALSE
    /\ fsFiles = {}
    /\ archive = [p \in OutPaths |-> Absent]
    /\ manifestFile = <<>>
    /\ pc = "start"
    /\ exit_status = -1
    /\ overwrite = FALSE
    /\ audio_files = <<>>
    /\ idx = 1
    /\ manifest = <<>>
    /\ skipped = 0
    /\ failures = 0
    /\ visited = <<>>
    /\ preexist = {}
    /\ run = 1
    /\ prev_failed = {}

InitQuality ==
    /\ BatchIdle
    /\ rep = RepIdle
    /\ ex = ExIdle
    /\ qa \in {Pending("noise_detector", in) : in \in ND_Inputs}
            \cup {Pending("robust", in) : in \in RB_Inputs}
            \cup {Pending("simple_noise", in) : in \in SN_Inputs}
            \cup {Pending("simple_robust", in) : in \in SR_Inputs}
            \cup {Pending("professional", in) : in \in PR_Inputs}
            \cup {Pending("calibrated", in) : in \in CA_Inputs}
            \cup {Pending("simple_audio", in) : in \in SA_Inputs}

NextQuality ==
    \/ ND_Analyze
    \/ ND_AnalyzeError
    \/ RB_Analyze
    \/ RB_AnalyzeError
    \/ SN_Analyze
    \/ SN_AnalyzeProbeError
    \/ SN_AnalyzeException
    \/ SR_Analyze
    \/ SR_AnalyzeError
    \/ PR_Analyze
    \/ PR_AnalyzeError
    \/ CA_Analyze
    \/ CA_AnalyzeProbeError
    \/ CA_AnalyzeException
    \/ SA_Analyze
    \/ SA_AnalyzeProbeError
    \/ SA_AnalyzeException

SpecQuality == InitQuality /\ [][NextQuality]_vars

Levels == {"low", "medium", "high", "very_high"}
Recommendations == {"GOOD", "ACCEPTABLE", "REVIEW", "EXCLUDE"}

\* a result of a successful analysis
Analyzed ==
    qa.variant # "none" /\ qa.phase = "result" /\ qa.noise_level \in Levels

\* strictness of a recommendation
RecRank(r) ==
    CASE r = "GOOD" -> 0 [] r = "ACCEPTABLE" -> 1 [] r = "REVIEW" -> 2
      [] r = "EXCLUDE" -> 3

ScoreBand(score) ==
    IF score < 30 THEN "EXCLUDE"
    ELSE IF score < 50 THEN "REVIEW"
    ELSE IF score < 70 THEN "ACCEPTABLE"
    ELSE "GOOD"

LevelBand(level) ==
    CASE level = "very_high" -> "EXCLUDE" [] level = "high" -> "REVIEW"
      [] level = "medium" -> "ACCEPTABLE" [] level = "low" -> "GOOD"

\* C10: in every classifier variant the recommendation is the stricter of
\* the score band and the noise-level band; in particular a result with
\* quality_score < 30 is recommended EXCLUDE.
C10_RecommendationIsStricterBand ==
    Analyzed =>
        /\ qa.recommendation \in Recommendations
        /\ RecRank(qa.recommendation) =
               Max(RecRank(ScoreBand(qa.quality_score)),
                   RecRank(LevelBand(qa.noise_level)))
        /\ qa.quality_score < 30 => qa.recommendation = "EXCLUDE"

\* the result of one analyze_audio_file call of the given variants
ResultOf(variants) == qa.variant \in variants /\ qa.phase = "result"

C12_ScoreInRange ==
    qa.variant # "none" /\ qa.phase = "result" /\ "error" \notin qa.keys =>
        /\ 0 <= qa.quality_score /\ qa.quality_score <= 100

\* both ends of the range are reached: a result whose penalties exceed its
\* bonuses, and (in another behaviour) one whose bonuses reach the cap
C12_Witness ==
    /\ ResultOf({"robust"}) /\ "error" \notin qa.keys
    /\ qa.quality_score = 0
    /\ qa.info.rms_db = -100 /\ qa.info.zero_crossing_rate = 35
    /\ qa.info.multiple_speakers_detected
    /\ qa.info.background_noise_detected

\* C13: every per-file record, also that of a file whose analysis failed,
\* has the three fields noise_level, quality_score and recommendation.
C13_AllThreeFields ==
    qa.variant # "none" /\ qa.phase = "result" =>
        {"noise_level", "quality_score", "recommendation"} \subseteq qa.keys

-----------------------------------------------------------------------------
(* Quality report: main and batch_analyze of calibrated_audio_analyzer.py   *)
(* and simple_audio_analyzer.py.                                            *)

ReportVariants == {"calibrated", "simple_audio"}

\* what the probes measure on the files of the reported directory
RP_Inputs(variant) ==
    IF variant = "calibrated"
    THEN {in \in CA_Inputs :
             /\ in.bitrate = 128000 /\ in.sample_rate = 44100
             /\ in.duration = 5 /\ in.peak_level = 0
             /\ in.rms_level \in {-20, -8}
             /\ ~in.background_noise_indicator}
    ELSE {in \in SA_Inputs :
             /\ in.bitrate = 128000 /\ in.sample_rate = 44100
             /\ in.duration = 200 /\ in.peak_level = 0
             /\ in.rms_level \in {-20, -8}
             /\ ~in.background_noise_indicator}

\* the dicts analyze_audio_file can return for a file: a full analysis, the
\* probe's error dict, or the record built by the except branch
RP_Outcomes(variant) ==
    UNION {{IF variant = "calibrated" THEN CA_analysis(in)
                                      ELSE SA_analysis(in),
            ProbeErrorResult(variant, in),
            ErrorResult(variant, in, 0, "unknown", "ERROR")} :
           in \in RP_Inputs(variant)}

\* batch_analyze: the results dict before the loop
RP_EmptyResults(total) ==
    [total_files |-> total, analyzed |-> 0, errors |-> 0,
     noise_levels |-> [l \in {"very_high", "high", "medium", "low",
                              "unknown"} |-> 0],
     recommendations |-> [r \in {"EXCLUDE", "REVIEW", "ACCEPTABLE",
                                 "GOOD"} |-> 0],
     multiple_speakers |-> 0, files |-> <<>>]

\* analysis.get('audio_analysis', {}).get('multiple_speakers_indicator', False)
RP_multi(analysis) ==
    "error" \notin analysis.keys /\ analysis.info.multiple_speakers_indicator

\* batch_analyze: one iteration of the loop on the results dict
RP_count(results, analysis) ==
    LET appended == [results EXCEPT !.files = Append(@, analysis)]
    IN  IF "error" \in analysis.keys
        THEN [appended EXCEPT !.errors = @ + 1,
                              !.noise_levels["unknown"] = @ + 1]
        ELSE [appended EXCEPT
                 !.analyzed = @ + 1,
                 !.noise_levels[analysis.noise_level] = @ + 1,
                 !.multiple_speakers =
                     IF RP_multi(analysis) THEN @ + 1 ELSE @,
                 !.recommendations[analysis.recommendation] = @ + 1]

InitReport ==
    /\ BatchIdle
    /\ qa = QaIdle
    /\ ex = ExIdle
    /\ \E v \in ReportVariants, d \in BOOLEAN, total \in 0..MaxReportFiles :
          rep = [variant |-> v, pc |-> "start", dirExists |-> d,
                 results |-> RP_EmptyResults(IF d THEN total ELSE 0),
                 reportFile |-> "absent"]

\* main: the directory does not exist
RP_MainMissingDir ==
    /\ rep.pc = "start"
    /\ ~rep.dirExists
    /\ rep' = [rep EXCEPT !.pc = "done"]
    /\ UNCHANGED <<batchVars, qa, ex>>

\* batch_analyze: one file is analysed, appended and counted
RP_BatchAnalyzeFile ==
    /\ rep.pc = "start"
    /\ rep.dirExists
    /\ Len(rep.results.files) < rep.results.total_files
    /\ \E analysis \in RP_Outcomes(rep.variant) :
          rep' = [rep EXCEPT !.results = RP_count(@, analysis)]
    /\ UNCHANGED <<batchVars, qa, ex>>

\* main: the results are written to the output file
RP_WriteReport ==
    /\ rep.pc = "start"
    /\ rep.dirExists
    /\ Len(rep.results.files) = rep.results.total_files
    /\ rep' = [rep EXCEPT !.reportFile = rep.results, !.pc = "written"]
    /\ UNCHANGED <<batchVars, qa, ex>>

\* file_result.get('quality_score', 0)
RP_quality_score(file_result) ==
    IF "quality_score" \in file_result.keys THEN file_result.quality_score
    ELSE 0

\* main: whether a record goes on the list of problematic files
RP_problematic(variant, file_result) ==
    \/ /\ "noise_level" \in file_result.keys
       /\ file_result.noise_level \in {"very_high", "high"}
    \/ RP_quality_score(file_result) < 50
    \/ variant = "simple_audio" /\ RP_multi(file_result)

\* main: the summary is printed and the problematic files are listed;
\* file_result['file'] raises KeyError on a record without that key
RP_PrintSummary ==
    /\ rep.pc = "written"
    /\ LET files == rep.results.files
           raises == \E i \in 1..Len(files) :
                        /\ RP_problematic(rep.variant, files[i])
                        /\ "file" \notin files[i].keys
       IN  rep' = [rep EXCEPT !.pc = IF raises THEN "crashed" ELSE "done"]
    /\ UNCHANGED <<batchVars, qa, ex>>

NextReport ==
    \/ RP_MainMissingDir
    \/ RP_BatchAnalyzeFile
    \/ RP_WriteReport
    \/ RP_PrintSummary

SpecReport == InitReport /\ [][NextReport]_vars

\* C14: a quality-report invocation never ends by an exception, whatever
\* the files and the outcome of each per-file analysis.
C14_ReportNeverCrashes == rep.pc # "crashed"

\* C15 as stated: whenever the RMS level exceeds the analyzer's high-noise
\* threshold and the multiple-speakers flag is set, the level is high or
\* very_high and the recommendation REVIEW or EXCLUDE, whatever the other
\* inputs (RobustAudioAnalyzer: -15 dB, SimpleRobustAnalyzer: -10 dB).
C15_LoudAndMultiSpeakerIsHigh ==
    /\ ResultOf({"robust", "simple_robust"}) /\ "error" \notin qa.keys
    /\ qa.info.rms_db > (IF qa.variant = "robust" THEN -15 ELSE -10)
    /\ qa.info.multiple_speakers_detected
    => /\ qa.noise_level \in {"high", "very_high"}
       /\ qa.recommendation \in {"REVIEW", "EXCLUDE"}

\* C15, amended: the statement holds for RobustAudioAnalyzer; in
\* SimpleRobustAnalyzer the flag is no high-noise indicator, and the result
\* is high or very_high (REVIEW or EXCLUDE) whenever the RMS level exceeds
\* -10 dB and the dynamic range is below 10 dB, which it is for every clip
\* whose peak does not exceed full scale.
C15_LoudIsHigh ==
    /\ ResultOf({"robust", "simple_robust"}) /\ "error" \notin qa.keys
    /\ \/ /\ qa.variant = "robust"
          /\ qa.info.rms_db > -15
          /\ qa.info.multiple_speakers_detected
       \/ /\ qa.variant = "simple_robust"
          /\ qa.info.rms_db > -10
          /\ \/ qa.info.peak_db - qa.info.rms_db < 10
             \/ qa.info.peak_db <= 0
    => /\ qa.noise_level \in {"high", "very_high"}
       /\ qa.recommendation \in {"REVIEW", "EXCLUDE"}

\* a loud clip with short silences whose only further indicator is the
\* dynamic range (SimpleRobustAnalyzer), classified high
C15_Witness ==
    /\ ResultOf({"simple_robust"}) /\ "error" \notin qa.keys
    /\ qa.info.rms_db = -9 /\ qa.info.peak_db = 0
    /\ qa.info.multiple_speakers_detected
    /\ qa.info.zero_crossing_rate = 2
    /\ qa.quality_score >= 50
    /\ qa.noise_level = "high"

\* the thresholds dict of the three analyzers that count indicators
Thresholds(variant) ==
    CASE variant = "robust" ->
            [very_high_rms |-> -5, very_high_dr |-> 5, high_rms |-> -15,
             high_dr |-> 15, medium_rms |-> -25, medium_dr |-> 25]
      [] variant = "simple_robust" ->
            [very_high_rms |-> -5, very_high_dr |-> 5, high_rms |-> -10,
             high_dr |-> 10, medium_rms |-> -20, medium_dr |-> 20]
      [] variant = "professional" ->
            [very_high_rms |-> -10, very_high_dr |-> 10, high_rms |-> -20,
             high_dr |-> 20, medium_rms |-> -30, medium_dr |-> 30]

\* how many of the five very_high predicates hold of a result
VeryHighCount(r) ==
    LET t == Thresholds(r.variant)
        dr == r.info.peak_db - r.info.rms_db
    IN  (IF r.info.rms_db > t.very_high_rms THEN 1 ELSE 0)
      + (IF dr < t.very_high_dr THEN 1 ELSE 0)
      + (IF r.info.zero_crossing_rate > 30 THEN 1 ELSE 0)
      + (IF r.info.multiple_speakers_detected
            /\ r.info.background_noise_detected THEN 1 ELSE 0)
      + (IF r.quality_score < 30 THEN 1 ELSE 0)

\* how many of the looser high predicates hold of a result; in
\* SimpleRobustAnalyzer the flag predicate never holds
HighCount(r) ==
    LET t == Thresholds(r.variant)
        dr == r.info.peak_db - r.info.rms_db
    IN  (IF r.info.rms_db > t.high_rms THEN 1 ELSE 0)
      + (IF dr < t.high_dr THEN 1 ELSE 0)
      + (IF r.info.zero_crossing_rate > 20 THEN 1 ELSE 0)
      + (IF r.variant # "simple_robust"
            /\ r.info.multiple_speakers_detected THEN 1 ELSE 0)
      + (IF r.quality_score < 50 THEN 1 ELSE 0)

\* a sign of medium noise other than the score
MediumSign(r) ==
    \/ r.info.rms_db > Thresholds(r.variant).medium_rms
    \/ r.info.peak_db - r.info.rms_db < Thresholds(r.variant).medium_dr

Counted == {"robust", "simple_robust", "professional"}

-----------------------------------------------------------------------------
(* extract_features and the try block of the batch loop for one clip.  The  *)
(* signal is a sequence of blocks of hop_length samples, each given by its  *)
(* power; frames are counted in blocks.                                     *)

SetMax(S) == CHOOSE x \in S : \A z \in S : z <= x
SetMin(S) == CHOOSE x \in S : \A z \in S : x <= z

\* block powers: digital silence, a faint block, a loud block
Powers == {0, 10, 100000}

\* the signal after librosa.util.normalize: its peak is at full scale, so
\* it has a loud block, unless it is empty or all zero
Signals ==
    {y \in UNION {[1..n -> Powers] : n \in 0..MaxBlocks} :
        \/ \E b \in 1..Len(y) : y[b] = 100000
        \/ \A b \in 1..Len(y) : y[b] = 0}

\* args.trim_top_db: the default, and the smallest value that is not
\* positive
TopDbs == {25, 0}

\* 10 ^ (top_db / 10), the power ratio of a level difference
db_to_power(top_db) == IF top_db = 25 THEN 316 ELSE 1

\* number of frames of a centered framing with hop_length of one block
Frames(y) == Len(y) + 1

\* power of frame t (0-based) of the zero-padded signal: a frame is four
\* blocks long and centered on the start of block t
FramePower(y, t) ==
    LET BlockAt(b) == IF b \in 1..Len(y) THEN y[b] ELSE 0
    IN  BlockAt(t - 1) + BlockAt(t) + BlockAt(t + 1) + BlockAt(t + 2)

\* librosa.effects.trim, the non-silent frames: those whose level, clamped
\* from below, is less than top_db below the level of the loudest frame
non_silent(y, top_db) ==
    LET ts == 0..(Frames(y) - 1)
        ref == SetMax({Max(1, FramePower(y, t)) : t \in ts})
    IN  {t \in ts : Max(1, FramePower(y, t)) * db_to_power(top_db) > ref}

\* librosa.effects.trim(y, top_db): the trimmed signal and the bounds
trim(y, top_db) ==
    LET nonzero == non_silent(y, top_db)
        start == IF nonzero # {} THEN SetMin(nonzero) ELSE 0
        end == IF nonzero # {} THEN Min(Len(y), SetMax(nonzero) + 1) ELSE 0
    IN  [y |-> SubSeq(y, start + 1, end), idx |-> <<start, end>>]

\* values of a frame of the pitch track
PitchValues == {"nan", "zero", "hz"}

\* pitch[np.isnan(pitch)] = 0.0
ZeroNaN(pitch) ==
    [i \in 1..Len(pitch) |-> IF pitch[i] = "nan" THEN "zero" ELSE pitch[i]]

\* np.count_nonzero: NaN counts as nonzero
count_nonzero(a) == Cardinality({i \in 1..Len(a) : a[i] # "zero"})

\* the fraction np.count_nonzero(pitch) / pitch.size
voiced_ratio_unvoiced(pitch) ==
    [num |-> Len(pitch) - count_nonzero(pitch), den |-> Len(pitch)]

voiced_ratio(pitch) ==
    [num |-> count_nonzero(pitch), den |-> Len(pitch)]

\* the waveform the features are computed from: the trimmed signal unless
\* it is empty
trimmed_or_full(y, top_db) ==
    IF Len(trim(y, top_db).y) > 0 THEN trim(y, top_db).y ELSE y

extract_features_propagating(in) ==
    LET t == trim(in.y, in.trim_top_db)
        trimmed == t.idx[1] # 0 \/ t.idx[2] # Len(in.y)
        y == trimmed_or_full(in.y, in.trim_top_db)
        pitch == IF in.yin.raises THEN <<"zero">> ELSE ZeroNaN(in.yin.f0)
        ratio == IF in.yin.raises THEN [num |-> 0, den |-> 1]
                 ELSE voiced_ratio(pitch)
        tempo_bpm == IF in.beat_track.raises THEN "None"
                     ELSE in.beat_track.tempo
    IN  IF Len(in.y) = 0 \/ Len(y) = 0 \/ in.yin.raises
           \/ in.beat_track.raises
        THEN [status |-> "raised"]
        ELSE [status |-> "returned",
              features |-> [waveform |-> y, pitch |-> pitch,
                            frames |-> Frames(y)],
              summary |-> [features_path |-> "", num_samples |-> Len(y),
                           trimmed |-> trimmed,
                           pitch_voiced_ratio |-> ratio,
                           tempo_bpm |-> tempo_bpm]]

\* what extract_features does with a decoded, normalized signal y: in.yin
\* and in.beat_track say whether the estimators raise and what they return
extract_features(in) ==
    LET t == trim(in.y, in.trim_top_db)
        trimmed == t.idx[1] # 0 \/ t.idx[2] # Len(in.y)
        y == trimmed_or_full(in.y, in.trim_top_db)
        pitch == IF in.yin.raises THEN <<"zero">> ELSE ZeroNaN(in.yin.f0)
        ratio == IF in.yin.raises THEN [num |-> 0, den |-> 1]
                 ELSE voiced_ratio(pitch)
        tempo_bpm == IF in.beat_track.raises THEN "None"
                     ELSE in.beat_track.tempo
    IN  IF Len(in.y) = 0 \/ Len(y) = 0
        THEN [status |-> "raised"]
        ELSE [status |-> "returned",
              features |-> [waveform |-> y, pitch |-> pitch,
                            frames |-> Frames(y)],
              summary |-> [features_path |-> "", num_samples |-> Len(y),
                           trimmed |-> trimmed,
                           pitch_voiced_ratio |-> ratio,
                           tempo_bpm |-> tempo_bpm]]

\* the calls of extract_features: yin returns one value per frame of the
\* waveform it is given
ExtractInputs ==
    UNION {
        {[y |-> y, trim_top_db |-> d, yin |-> p, beat_track |-> b] :
            p \in {[raises |-> TRUE, f0 |-> <<>>]}
                  \cup {[raises |-> FALSE, f0 |-> f] :
                           f \in [1..Frames(trimmed_or_full(y, d))
                                     -> PitchValues]},
            b \in {[raises |-> TRUE, tempo |-> "None"],
                   [raises |-> FALSE, tempo |-> "120.0"]}} :
        y \in Signals, d \in TopDbs}

NoFeatures == [status |-> "none"]

InitExtract ==
    /\ BatchIdle
    /\ qa = QaIdle
    /\ rep = RepIdle
    /\ \E in \in ExtractInputs :
          ex = [phase |-> "call", in |-> in, out |-> NoFeatures,
                archive |-> "absent", manifest |-> <<>>, failures |-> 0]

\* main, lines 263-271: extract_features returns
EX_Extracted ==
    /\ ex.phase = "call"
    /\ extract_features(ex.in).status = "returned"
    /\ ex' = [ex EXCEPT !.phase = "extracted", !.out = extract_features(ex.in)]
    /\ UNCHANGED <<batchVars, qa, rep>>

\* main, lines 281-284: extract_features raises
EX_ExtractRaises ==
    /\ ex.phase = "call"
    /\ extract_features(ex.in).status = "raised"
    /\ ex' = [ex EXCEPT !.phase = "failed", !.failures = 1]
    /\ UNCHANGED <<batchVars, qa, rep>>

\* main, lines 272-280: the archive is written and the record appended
EX_Processed ==
    /\ ex.phase = "extracted"
    /\ ex' = [ex EXCEPT
                 !.phase = "processed", !.archive = "complete",
                 !.manifest = <<[ex.out.summary EXCEPT
                                    !.features_path = "output_path"]>>]
    /\ UNCHANGED <<batchVars, qa, rep>>

\* main, lines 272 and 281-284: np.savez_compressed raises
EX_WriteRaises ==
    /\ ex.phase = "extracted"
    /\ \E partway \in {"absent", "partial"} :
          ex' = [ex EXCEPT !.phase = "failed", !.archive = partway,
                           !.failures = 1]
    /\ UNCHANGED <<batchVars, qa, rep>>

NextExtract ==
    \/ EX_Extracted
    \/ EX_ExtractRaises
    \/ EX_Processed
    \/ EX_WriteRaises

SpecExtract == InitExtract /\ [][NextExtract]_vars

\* extract_features has returned for the clip
Extracted == ex.phase \in {"extracted", "processed", "failed"}
                /\ ex.out.status = "returned"

\* C16: the reported voiced ratio is the number of nonzero frames of the
\* archived pitch array over its number of frames, and lies in [0, 1], also
\* in the fallback taken when pitch estimation fails.
C16_VoicedRatio ==
    Extracted =>
        LET pitch == ex.out.features.pitch
            ratio == ex.out.summary.pitch_voiced_ratio
        IN  /\ ratio.den = Len(pitch) /\ ratio.den > 0
            /\ ratio.num = Cardinality({i \in 1..Len(pitch) :
                                           pitch[i] = "hz"})
            /\ 0 <= ratio.num /\ ratio.num <= ratio.den
            /\ ex.phase = "processed" =>
                  ex.manifest[1].pitch_voiced_ratio = ratio

\* a pitch track with undefined, zero and voiced frames: ratio 1/3 or 1/4
C16_Witness ==
    /\ ex.phase = "processed" /\ ~ex.in.yin.raises
    /\ \E i, j, k \in 1..Len(ex.in.yin.f0) :
          /\ ex.in.yin.f0[i] = "nan" /\ ex.in.yin.f0[j] = "zero"
          /\ ex.in.yin.f0[k] = "hz"
    /\ ex.manifest[1].pitch_voiced_ratio.num = 1

\* trimming leaves no samples of the clip
EmptyTrim == Len(trim(ex.in.y, ex.in.trim_top_db).y) = 0

\* C18: if trimming leaves no samples, extract_features raises, so the clip
\* is counted as a failure and has neither an archive nor a manifest record.
C18_EmptyTrimFails ==
    ex.phase \notin {"idle", "call"} /\ EmptyTrim =>
        /\ ex.phase = "failed"
        /\ ex.out.status # "returned"
        /\ ex.failures = 1
        /\ ex.archive = "absent"
        /\ ex.manifest = <<>>

\* C19: the trimmed flag is true iff the waveform the features are computed
\* from differs from the full normalized signal, iff the trim bounds are not
\* [0, length of the signal].
C19_TrimmedFlag ==
    Extracted =>
        /\ ex.out.summary.trimmed <=> ex.out.features.waveform # ex.in.y
        /\ ex.out.summary.trimmed <=>
              trim(ex.in.y, ex.in.trim_top_db).idx # <<0, Len(ex.in.y)>>

\* pitch or tempo estimation was reached and raised
PitchFailed == Len(ex.in.y) > 0 /\ ex.in.yin.raises
TempoFailed == Len(ex.in.y) > 0 /\ ex.in.beat_track.raises

\* C20: a failure of pitch or tempo estimation does not make
\* extract_features fail: it returns an all-zero pitch array with voiced
\* ratio 0, respectively tempo_bpm None, and the clip is archived, recorded
\* and not counted as failed unless writing the archive fails.
C20_EstimatorFailureRecovered ==
    ex.phase \notin {"idle", "call"} /\ (PitchFailed \/ TempoFailed) =>
        /\ ex.out.status = "returned"
        /\ PitchFailed =>
              /\ \A i \in 1..Len(ex.out.features.pitch) :
                    ex.out.features.pitch[i] = "zero"
              /\ ex.out.summary.pitch_voiced_ratio.num = 0
        /\ TempoFailed => ex.out.summary.tempo_bpm = "None"
        /\ ex.phase = "processed" =>
              /\ ex.archive = "complete"
              /\ ex.failures = 0
              /\ Len(ex.manifest) = 1
              /\ PitchFailed => ex.manifest[1].pitch_voiced_ratio.num = 0
              /\ TempoFailed => ex.manifest[1].tempo_bpm = "None"
        /\ ex.phase = "extracted" => ex.failures = 0

C20_Witness ==
    /\ ex.phase = "processed" /\ PitchFailed /\ TempoFailed
    /\ ex.archive = "complete" /\ ex.failures = 0
    /\ ex.manifest[1].tempo_bpm = "None"
    /\ ex.manifest[1].pitch_voiced_ratio = [num |-> 0, den |-> 1]

\* the frame-indexed arrays of an archive
FrameArrays ==
    {"mfcc", "log_mel", "spectral_contrast", "chroma", "spectral_centroid",
     "spectral_bandwidth", "rms", "zcr", "pitch"}

\* number of frames of an array of the archive: the pitch array is what the
\* try block of lines 120-132 left, the others are centered framings of the
\* waveform with the same hop_length
frame_count(features, name) ==
    IF name = "pitch" THEN Len(features.pitch) ELSE features.frames

\* C21: in every archive, also after the pitch-estimation fallback, the
\* frame counts of any two frame-indexed arrays differ by at most 1.
C21_FrameCountsAgree ==
    Extracted =>
        \A a, b \in FrameArrays :
            frame_count(ex.out.features, a) - frame_count(ex.out.features, b)
                <= 1

\* without the fallback the frame counts are equal
C21_FrameCountsAgreeUnlessFallback ==
    Extracted /\ ~ex.in.yin.raises =>
        \A a, b \in FrameArrays :
            frame_count(ex.out.features, a) = frame_count(ex.out.features, b)

\* the classifier variants that measure an RMS level and a peak level
LevelVariants ==
    {"noise_detector", "robust", "simple_robust", "professional",
     "calibrated", "simple_audio"}

\* the measured levels of a result, under the names the variant gives them
RmsOf(r) ==
    IF r.variant \in {"noise_detector", "calibrated", "simple_audio"}
    THEN r.info.rms_level ELSE r.info.rms_db

PeakOf(r) ==
    IF r.variant \in {"noise_detector", "calibrated", "simple_audio"}
    THEN r.info.peak_level ELSE r.info.peak_db

\* C22: in every classifier variant that has an RMS level and a peak level
\* of the clip, the dynamic range that is scored and classified is the peak
\* level minus the RMS level, also for negative levels.
C22_DynamicRangeIsPeakMinusRms ==
    Analyzed /\ qa.variant \in LevelVariants =>
        qa.dynamic_range = PeakOf(qa) - RmsOf(qa)

\* the variants other than NoiseDetector compute the difference
C22_DynamicRangeExceptNoiseDetector ==
    Analyzed /\ qa.variant \in LevelVariants \ {"noise_detector"} =>
        qa.dynamic_range = PeakOf(qa) - RmsOf(qa)

-----------------------------------------------------------------------------
(* The silence scanner of RobustAudioAnalyzer._detect_multiple_speakers and *)
(* SimpleRobustAnalyzer._analyze_silence, one loop iteration per step.      *)
(* qa holds the locals of the call while it runs.                           *)

ScanVariants == {"robust", "simple_robust"}

\* levels of a sample in dB: digital silence, the threshold itself, speech
SampleDb == {-200, -40, -20}

\* sample rates at which 100 ms are one or two samples
ScanRates == {10, 20}

silence_threshold == -40

\* int(0.1 * sample_rate) and int(0.5 * sample_rate)
min_silence_samples(sample_rate) == sample_rate \div 10
short_silence_samples(sample_rate) == sample_rate \div 2

ScanInputs ==
    [audio_db : UNION {[1..n -> SampleDb] : n \in 0..MaxSamples},
     sample_rate : ScanRates]

Scanning(variant, info) ==
    [variant |-> variant, phase |-> "scan", info |-> info, i |-> 0,
     in_silence |-> FALSE, silence_start |-> 0, silence_periods |-> <<>>]

InitScan ==
    /\ BatchIdle
    /\ rep = RepIdle
    /\ ex = ExIdle
    /\ qa \in {Scanning(v, in) : v \in ScanVariants, in \in ScanInputs}

\* one iteration of 'for i, is_silent in enumerate(silence_mask)'
SC_LoopStep ==
    /\ qa.variant \in ScanVariants /\ qa.phase = "scan"
    /\ qa.i < Len(qa.info.audio_db)
    /\ LET is_silent == qa.info.audio_db[qa.i + 1] < silence_threshold
           silence_duration == qa.i - qa.silence_start
       IN  qa' = IF is_silent /\ ~qa.in_silence
                 THEN [qa EXCEPT !.silence_start = qa.i, !.in_silence = TRUE,
                                 !.i = qa.i + 1]
                 ELSE IF ~is_silent /\ qa.in_silence
                 THEN [qa EXCEPT
                          !.silence_periods =
                              IF silence_duration
                                    >= min_silence_samples(qa.info.sample_rate)
                              THEN Append(@, <<qa.silence_start, qa.i>>)
                              ELSE @,
                          !.in_silence = FALSE, !.i = qa.i + 1]
                 ELSE [qa EXCEPT !.i = qa.i + 1]
    /\ UNCHANGED <<batchVars, rep, ex>>

close_final_dropped(s) == s.silence_periods

\* 'Close final silence period': the periods after the loop
close_final(s) ==
    LET n == Len(s.info.audio_db)
    IN  IF s.in_silence
           /\ n - s.silence_start >= min_silence_samples(s.info.sample_rate)
        THEN Append(s.silence_periods, <<s.silence_start, n>>)
        ELSE s.silence_periods

RECURSIVE total_silence(_)
total_silence(periods) ==
    IF periods = <<>> THEN 0
    ELSE (periods[1][2] - periods[1][1]) + total_silence(Tail(periods))

\* the dict the scanner returns, ratios as fractions
silence_analysis(s) ==
    LET n == Len(s.info.audio_db)
        periods == close_final(s)
        total_silence_samples == total_silence(periods)
        short == Cardinality({k \in 1..Len(periods) :
                     periods[k][2] - periods[k][1]
                        < short_silence_samples(s.info.sample_rate)})
        count == Max(Len(periods), 1)
    IN  [variant |-> s.variant, phase |-> "scanned", info |-> s.info,
         periods |-> periods,
         silence_periods |-> Len(periods),
         silence_ratio |-> IF n > 0
                           THEN [num |-> total_silence_samples, den |-> n]
                           ELSE [num |-> 0, den |-> 1],
         short_silence_periods |-> short,
         multiple_speakers_ratio |-> [num |-> short, den |-> count],
         multiple_speakers_detected |-> short * 10 > 4 * count,
         background_noise_detected |->
             IF n > 0 THEN total_silence_samples * 10 < n ELSE TRUE]

\* the code after the loop: the final period is closed and the ratios and
\* indicators are returned
SC_Return ==
    /\ qa.variant \in ScanVariants /\ qa.phase = "scan"
    /\ qa.i = Len(qa.info.audio_db)
    /\ qa' = silence_analysis(qa)
    /\ UNCHANGED <<batchVars, rep, ex>>

NextScan ==
    \/ SC_LoopStep
    \/ SC_Return

SpecScan == InitScan /\ [][NextScan]_vars

\* the scanner has returned
Scanned == qa.variant \in ScanVariants /\ qa.phase = "scanned"

\* the maximal runs of consecutive samples below the threshold, as
\* half-open intervals <<start, end>> of 0-based sample indices
MaximalRuns(audio_db) ==
    LET n == Len(audio_db)
        Below(k) == audio_db[k] < silence_threshold
    IN  {r \in (0..n) \X (0..n) :
            /\ r[1] < r[2]
            /\ \A k \in (r[1] + 1)..r[2] : Below(k)
            /\ r[1] = 0 \/ ~Below(r[1])
            /\ r[2] = n \/ ~Below(r[2] + 1)}

\* C23: the scanner reports exactly the maximal runs of below-threshold
\* samples that last at least the minimum duration, a run reaching the end
\* of the signal included; the intervals are disjoint and increasing, the
\* silence ratio lies in [0, 1] and the number of short intervals is at most
\* the number of intervals.
C23_ExactlyTheLongMaximalRuns ==
    Scanned =>
        LET periods == qa.periods
            min == min_silence_samples(qa.info.sample_rate)
        IN  /\ {periods[k] : k \in 1..Len(periods)}
                  = {r \in MaximalRuns(qa.info.audio_db) : r[2] - r[1] >= min}
            /\ \A k \in 1..(Len(periods) - 1) :
                  periods[k][2] < periods[k + 1][1]
            /\ qa.silence_periods = Len(periods)
            /\ 0 <= qa.silence_ratio.num
            /\ qa.silence_ratio.num <= qa.silence_ratio.den
            /\ qa.silence_ratio.den > 0
            /\ qa.short_silence_periods <= qa.silence_periods

\* a run that is too short is dropped and a run that reaches the end of the
\* signal is reported
C23_Witness ==
    /\ Scanned
    /\ qa.silence_periods >= 1
    /\ qa.periods[Len(qa.periods)][2] = Len(qa.info.audio_db)
    /\ \E r \in MaximalRuns(qa.info.audio_db) :
          \A k \in 1..Len(qa.periods) : qa.periods[k] # r

-----------------------------------------------------------------------------
(* librosa.effects.trim applied to a signal and again to its own result.    *)

\* block powers: digital silence, a quiet block 28 dB below full scale, a
\* block at full scale
TrimPowers == {0, 150, 100000}

TrimSignals == UNION {[1..n -> TrimPowers] : n \in 0..MaxTrimBlocks}

InitTrim ==
    /\ BatchIdle
    /\ qa = QaIdle
    /\ rep = RepIdle
    /\ \E y \in TrimSignals, d \in TopDbs :
          ex = [phase |-> "normalized", y |-> y, trim_top_db |-> d]

\* extract_features, line 82: the signal is trimmed
TR_Trim ==
    /\ ex.phase = "normalized"
    /\ ex' = [phase |-> "trimmed", y |-> ex.y, trim_top_db |-> ex.trim_top_db,
              first |-> trim(ex.y, ex.trim_top_db)]
    /\ UNCHANGED <<batchVars, qa, rep>>

\* the trimmed signal is trimmed again with the same top_db
TR_TrimAgain ==
    /\ ex.phase = "trimmed"
    /\ ex' = [phase |-> "retrimmed", y |-> ex.y,
              trim_top_db |-> ex.trim_top_db, first |-> ex.first,
              second |-> trim(ex.first.y, ex.trim_top_db)]
    /\ UNCHANGED <<batchVars, qa, rep>>

NextTrim ==
    \/ TR_Trim
    \/ TR_TrimAgain

SpecTrim == InitTrim /\ [][NextTrim]_vars

\* C24: trimming an already trimmed signal again with the same top_db
\* returns the same signal, with bounds [0, length]: it does not shrink it
\* further.
C24_TrimIdempotent ==
    ex.phase = "retrimmed" =>
        /\ ex.second.y = ex.first.y
        /\ ex.second.idx = <<0, Len(ex.first.y)>>

\* a second trim never returns more than the first
C24_SecondTrimWithinFirst ==
    ex.phase = "retrimmed" => Len(ex.second.y) <= Len(ex.first.y)

-----------------------------------------------------------------------------
(* Further properties of the batch run *)

\* C25: within one run no output archive path is the target of more than
\* one loop iteration: the discovered list names each file once, distinct
\* files have distinct output paths, and so no clip is skipped because of,
\* or overwritten by, another clip of the same run.
C25_NoPathCollision ==
    /\ Distinct
    /\ \A i, j \in 1..N :
          audio_files[i] # audio_files[j] =>
              OutputPath(audio_files[i]) # OutputPath(audio_files[j])
    /\ \A i, j \in 1..Len(visited) :
          i # j => OutputPath(visited[i].file) # OutputPath(visited[j].file)
    /\ \A i \in 1..Len(visited) :
          visited[i].outcome = "skipped" =>
              OutputPath(visited[i].file) \in preexist

\* C26: a clip that the previous run counted as failed is not skipped by a
\* run without --overwrite: it goes through extraction again, whether its
\* extraction or its archive write had failed.
C26_FailedClipRetried ==
    run > 1 /\ pc \in {"loop", "done", "aborted"} /\ ~overwrite =>
        \A i \in 1..Len(visited) :
            visited[i].file \in prev_failed =>
                visited[i].outcome # "skipped"

\* a failed clip is attempted again when the run finds nothing at its
\* output path and no earlier iteration of the run has the same output path
C26_RetriedUnlessArchiveLeft ==
    run > 1 /\ pc \in {"loop", "done", "aborted"} /\ ~overwrite =>
        \A i \in 1..Len(visited) :
            /\ visited[i].file \in prev_failed
            /\ OutputPath(visited[i].file) \notin preexist
            /\ \A j \in 1..(i - 1) :
                  OutputPath(visited[j].file) # OutputPath(visited[i].file)
            => visited[i].outcome # "skipped"

\* the output paths whose archive was completely written during this run
WrittenThisRun ==
    {p \in OutPaths : archive[p].fresh /\ archive[p].st = "complete"}

\* C27: whenever a run stops, by completing or by an error that escapes the
\* loop, every archive written during the run has a record in the manifest
\* file.
C27_ArchivesHaveManifestRecords ==
    pc \in {"done", "aborted"} =>
        \A p \in WrittenThisRun :
            \E k \in 1..Len(manifestFile) : manifestFile[k].features_path = p

\* a run that completes records every archive it wrote
C27_CompletedRunRecordsArchives ==
    pc = "done" =>
        \A p \in WrittenThisRun :
            \E k \in 1..Len(manifestFile) : manifestFile[k].features_path = p

-----------------------------------------------------------------------------
(* batch_analyze of robust_audio_analyzer.py and noise_detector.py: the     *)
(* per-file records and the aggregate counts.  rep holds the results dict.  *)

BatchVariants == {"robust", "noise_detector"}

\* what the analysis measures on the files of the directory
BA_Inputs(variant) ==
    IF variant = "robust"
    THEN {in \in RB_Inputs :
             /\ in.rms_db \in {-100, -20, -12, -3} /\ in.peak_db = 0
             /\ in.zero_crossing_rate = 2 /\ in.spectral_centroid = 1000
             /\ in.high_frequency_ratio = 10 /\ in.file_size = 15000
             /\ ~in.background_noise_detected
             /\ in.multiple_speakers_detected <=> in.rms_db = -20}
    ELSE {in \in ND_Inputs :
             /\ in.sample_rate = 44100 /\ in.channels = 2
             /\ in.duration = 200 /\ in.bitrate = 128000
             /\ in.rms_level \in {-20, -12, -8} /\ in.peak_level = -6}

\* the dicts analyze_audio_file can return for a file: a full analysis or
\* the record of a failed one
BA_Outcomes(variant) ==
    IF variant = "robust"
    THEN {RB_analysis(in) : in \in BA_Inputs(variant)}
            \cup {ErrorResult("robust", CHOOSE in \in BA_Inputs(variant) :
                                            in.rms_db = -3,
                              0, "unknown", "ERROR")}
    ELSE {ND_analysis(in) : in \in BA_Inputs(variant)}
            \cup {ErrorResult("noise_detector",
                              CHOOSE in \in BA_Inputs(variant) :
                                  in.rms_level = -8,
                              0, "unknown", Missing)}

\* batch_analyze: the results dict before the loop
BA_EmptyResults(variant, total) ==
    [total_files |-> total, analyzed |-> 0, errors |-> 0,
     noise_levels |-> [l \in {"very_high", "high", "medium", "low",
                              "unknown"} |-> 0],
     recommendations |-> [r \in {"exclude", "review", "acceptable",
                                 "good"} |-> 0],
     multiple_speakers |-> IF variant = "robust" THEN 0 ELSE Missing,
     files |-> <<>>]

\* the key of the recommendation counter a recommendation text goes to,
\* Missing if it contains none of the four words
BA_recommendation_key(recommendation) ==
    IF recommendation = "EXCLUDE" THEN "exclude"
    ELSE IF recommendation = "REVIEW" THEN "review"
    ELSE IF recommendation = "ACCEPTABLE" THEN "acceptable"
    ELSE IF recommendation = "GOOD" THEN "good"
    ELSE Missing

BA_count_unknown_uncounted(variant, results, analysis) ==
    LET appended == [results EXCEPT !.files = Append(@, analysis)]
        noise_level == IF "noise_level" \in analysis.keys
                       THEN analysis.noise_level ELSE "unknown"
        key == BA_recommendation_key(
                   IF "recommendation" \in analysis.keys
                   THEN analysis.recommendation ELSE "")
        multi == variant = "robust"
                    /\ analysis.info.multiple_speakers_detected
        counted ==
            [appended EXCEPT
                !.analyzed = @ + 1,
                !.noise_levels[noise_level] = @ + 1,
                !.multiple_speakers = IF multi THEN @ + 1 ELSE @]
    IN  IF "error" \in analysis.keys
        THEN [appended EXCEPT !.errors = @ + 1]
        ELSE IF key = Missing THEN counted
        ELSE [counted EXCEPT !.recommendations[key] = @ + 1]

\* batch_analyze: one iteration of the loop on the results dict
BA_count(variant, results, analysis) ==
    LET appended == [results EXCEPT !.files = Append(@, analysis)]
        noise_level == IF "noise_level" \in analysis.keys
                       THEN analysis.noise_level ELSE "unknown"
        key == BA_recommendation_key(
                   IF "recommendation" \in analysis.keys
                   THEN analysis.recommendation ELSE "")
        multi == variant = "robust"
                    /\ analysis.info.multiple_speakers_detected
        counted ==
            [appended EXCEPT
                !.analyzed = @ + 1,
                !.noise_levels[noise_level] = @ + 1,
                !.multiple_speakers = IF multi THEN @ + 1 ELSE @]
    IN  IF "error" \in analysis.keys
        THEN [appended EXCEPT !.errors = @ + 1,
                              !.noise_levels["unknown"] = @ + 1]
        ELSE IF key = Missing THEN counted
        ELSE [counted EXCEPT !.recommendations[key] = @ + 1]

\* batch_analyze is called on a directory of total files
InitBatchAnalyze ==
    /\ BatchIdle
    /\ qa = QaIdle
    /\ ex = ExIdle
    /\ \E v \in BatchVariants, total \in 0..MaxReportFiles :
          rep = [variant |-> v, pc |-> "batch",
                 results |-> BA_EmptyResults(v, total)]

\* batch_analyze: one file is analysed, appended and counted
BA_AnalyzeFile ==
    /\ rep.pc = "batch"
    /\ Len(rep.results.files) < rep.results.total_files
    /\ \E analysis \in BA_Outcomes(rep.variant) :
          rep' = [rep EXCEPT
                     !.results = BA_count(rep.variant, @, analysis)]
    /\ UNCHANGED <<batchVars, qa, ex>>

\* batch_analyze returns the results dict
BA_Return ==
    /\ rep.pc = "batch"
    /\ Len(rep.results.files) = rep.results.total_files
    /\ rep' = [rep EXCEPT !.pc = "returned"]
    /\ UNCHANGED <<batchVars, qa, ex>>

NextBatchAnalyze ==
    \/ BA_AnalyzeFile
    \/ BA_Return

SpecBatchAnalyze == InitBatchAnalyze /\ [][NextBatchAnalyze]_vars

\* sum of the counters of a dict of counters
RECURSIVE SumOver(_, _)
SumOver(counts, ks) ==
    IF ks = {} THEN 0
    ELSE LET k == CHOOSE x \in ks : TRUE
         IN  counts[k] + SumOver(counts, ks \ {k})

\* C28: after batch_analyze the aggregate counts agree with the per-file
\* records: analyzed + errors = total_files = number of records, the
\* noise-level counts (unknown included) sum to total_files, and the
\* recommendation counts sum to analyzed.
C28_AggregateCountsConsistent ==
    rep.pc = "returned" =>
        LET r == rep.results
            IsError(i) == "error" \in r.files[i].keys
            n == Len(r.files)
        IN  /\ r.analyzed + r.errors = r.total_files
            /\ r.total_files = n
            /\ r.errors = Cardinality({i \in 1..n : IsError(i)})
            /\ SumOver(r.noise_levels, DOMAIN r.noise_levels) = r.total_files
            /\ \A l \in DOMAIN r.noise_levels :
                  r.noise_levels[l] =
                      Cardinality({i \in 1..n : r.files[i].noise_level = l})
            /\ SumOver(r.recommendations, DOMAIN r.recommendations)
                  = r.analyzed

\* a directory with a file that cannot be analysed and files of different
\* levels
C28_Witness ==
    /\ rep.pc = "returned"
    /\ rep.results.total_files = 3
    /\ rep.results.errors = 1
    /\ rep.results.noise_levels["unknown"] = 1
    /\ rep.results.noise_levels["high"] = 1
    /\ rep.results.noise_levels["medium"] = 1
    /\ rep.results.recommendations["review"] = 1

-----------------------------------------------------------------------------
(* _determine_noise_level and _get_recommendation of RobustAudioAnalyzer    *)
(* and SimpleRobustAnalyzer as functions of the quality score: a clip is    *)
(* classified, then classified again with a lower score and the same other  *)
(* inputs.                                                                  *)

ScoreVariants == {"robust", "simple_robust"}

\* quality scores on both sides of the bands at 30, 50 and 70
Scores == {0, 29, 30, 49, 50, 69, 70, 100}

\* dynamic ranges on both sides of the thresholds of both analyzers
DynamicRanges == {0, 7, 12, 22, 40}

ScoreInputs(variant) ==
    [rms_db : IF variant = "robust" THEN RB_RmsDb ELSE SR_RmsDb,
     dynamic_range : DynamicRanges,
     zero_crossing_rate : {2, 25, 35},
     multiple_speakers_detected : BOOLEAN,
     background_noise_detected : BOOLEAN]

\* _determine_noise_level followed by _get_recommendation, lines 84-88 of
\* analyze_audio_file
classify(variant, in, quality_score) ==
    LET level ==
            IF variant = "robust"
            THEN RB_determine_noise_level(in.rms_db, in.dynamic_range,
                     in.zero_crossing_rate, in.multiple_speakers_detected,
                     in.background_noise_detected, quality_score)
            ELSE SR_determine_noise_level(in.rms_db, in.dynamic_range,
                     in.zero_crossing_rate, in.multiple_speakers_detected,
                     in.background_noise_detected, quality_score)
    IN  [quality_score |-> quality_score, noise_level |-> level,
         recommendation |->
             IF variant = "robust"
             THEN RB_get_recommendation(level, quality_score)
             ELSE SR_get_recommendation(level, quality_score)]

InitScore ==
    /\ BatchIdle
    /\ rep = RepIdle
    /\ ex = ExIdle
    /\ \E v \in ScoreVariants, s \in Scores :
          \E in \in ScoreInputs(v) :
              qa = [variant |-> v, phase |-> "scored", info |-> in,
                    quality_score |-> s]

\* the clip is classified with its score
QS_Classify ==
    /\ qa.variant \in ScoreVariants /\ qa.phase = "scored"
    /\ qa' = [variant |-> qa.variant, phase |-> "classified",
              info |-> qa.info,
              first |-> classify(qa.variant, qa.info, qa.quality_score)]
    /\ UNCHANGED <<batchVars, rep, ex>>

\* the same clip is classified with a lower score
QS_ClassifyLower ==
    /\ qa.variant \in ScoreVariants /\ qa.phase = "classified"
    /\ \E s \in Scores :
          /\ s < qa.first.quality_score
          /\ qa' = [variant |-> qa.variant, phase |-> "reclassified",
                    info |-> qa.info, first |-> qa.first,
                    second |-> classify(qa.variant, qa.info, s)]
    /\ UNCHANGED <<batchVars, rep, ex>>

NextScore ==
    \/ QS_Classify
    \/ QS_ClassifyLower

SpecScore == InitScore /\ [][NextScore]_vars

\* severity of a noise level
LevelRank(l) ==
    CASE l = "low" -> 0 [] l = "medium" -> 1 [] l = "high" -> 2
      [] l = "very_high" -> 3

\* C29: with the other inputs fixed, a lower quality score gives a noise
\* level that is not lower and a recommendation that is not more lenient
\* (low < medium < high < very_high, GOOD < ACCEPTABLE < REVIEW < EXCLUDE).
C29_MonotoneInScore ==
    qa.variant \in ScoreVariants /\ qa.phase = "reclassified" =>
        /\ qa.second.quality_score < qa.first.quality_score
        /\ LevelRank(qa.second.noise_level) >= LevelRank(qa.first.noise_level)
        /\ RecRank(qa.second.recommendation)
              >= RecRank(qa.first.recommendation)

\* lowering the score alone takes a clip from low / GOOD to very_high /
\* EXCLUDE
C29_Witness ==
    /\ qa.variant \in ScoreVariants /\ qa.phase = "reclassified"
    /\ qa.first.noise_level = "low" /\ qa.first.recommendation = "GOOD"
    /\ qa.second.noise_level = "very_high"
    /\ qa.second.recommendation = "EXCLUDE"

\* C30: every record of the manifest of a completed run has a non-empty
\* features_path, the output archive path of its clip, and that archive was
\* written in this run before the record was added to the manifest list.
C30_RecordsPointToWrittenArchives ==
    [][
       /\ Len(manifest') > Len(manifest) =>
            LET r == manifest'[Len(manifest')]
            IN  /\ manifest' = Append(manifest, r)
                /\ r.features_path = OutputPath(r.audio)
                /\ archive'[OutputPath(r.audio)]
                      = [st |-> "complete", fresh |-> TRUE]
       /\ Completed' =>
            /\ \A k \in 1..Len(manifest') :
                  /\ manifest'[k].features_path # <<>>
                  /\ manifest'[k].features_path
                        = OutputPath(manifest'[k].audio)
                  /\ archive'[manifest'[k].features_path].fresh
                  /\ archive'[manifest'[k].features_path].st # "absent"
            /\ manifest' # <<>> => manifestFile' = manifest'
    ]_vars

C30_Witness ==
    /\ Completed /\ Len(manifest) >= 2 /\ manifestFile = manifest
    /\ \A k \in 1..Len(manifest) :
          manifest[k].features_path = OutputPath(audio_files[k])
    /\ manifest[1].features_path # manifest[2].features_path

====
